---- MODULE Spec2Model ----
(***************************************************************************)
(* A model of the taskforce supervisor (src/taskforce/task.py and          *)
(* src/taskforce/manage.py): the legion main loop, the per-task state      *)
(* machine, the pid map, config reloads and the HTTP control handlers.     *)
(*                                                                         *)
(* Python's None is modelled by 0 for timestamps and pids (time.time() and *)
(* pids are always positive).  The handlers of the program are sequential  *)
(* code, so each one is an operator from a state record to a state record; *)
(* an action packs the variables into such a record, runs the handler and  *)
(* unpacks the result.                                                     *)
(***************************************************************************)
EXTENDS Integers, Sequences, FiniteSets, TLC

\* ------------------------------------------------------------------ bounds
MaxTime == 7        \* the clock stops advancing here
TickStep == 3       \* seconds that pass in one Tick
MaxPid == 3         \* pids the OS hands out (a pid is reused once reaped)
MaxRequests == 2    \* HTTP requests in one run
MaxClock == 16      \* where the clock stops in the runs that follow an exit

\* ------------------------------------------------------- program constants
None == 0
sigkill_escalation == 5
sigterm_limit == sigkill_escalation * 2
reexec_delay == 5

all_controls == {"off", "once", "event", "wait", "nowait", "adopt", "suspend"}
run_controls == all_controls \ {"off"}
once_controls == {"once", "event"}

TaskNames == {"A", "B"}
Pids == 1..MaxPid
NoRoleSet == {"*"}         \* legion._role_set = None: role filtering is off

VARIABLES
    tasks,           \* legion._tasknames / legion._tasks: name -> task object
    tasks_scoped,    \* legion._tasks_scoped (names)
    procs,           \* legion._procs: pid -> event target [name, handler]
    file_event_map,  \* keys (task names) registered for file_change events
    exiting,         \* legion._exiting
    resetting,       \* legion._resetting
    do_stop_all,     \* legion._do_stop_all
    reload_config,   \* legion._reload_config
    config_running,  \* legion._config_running: the loaded document (0: none)
    role_set,        \* legion._role_set
    config_file,     \* the document the config file holds on disk
    roles_file,      \* the role set the roles file holds on disk
    alive,           \* pids of children that are running
    zombies,         \* pids of children that have exited and are not reaped
    sigsent,         \* pid -> the strongest signal the supervisor sent it
    now,             \* time.time()
    loop,            \* where legion.manage() is: "run", "exit", "reset", "crash"
    worker_wrote,    \* what HTTP worker threads have written (history)
    allow_control,   \* the listener was created with control privilege
    response,        \* the status code of the last HTTP response (0: none)
    requests,        \* the number of HTTP requests answered so far
    listed,          \* what the last direct call of task_list() returned
    edits,           \* the documents the config file is rewritten with, in order
    exit_asked,      \* when an exit was first asked for (history; 0: never)
    fw,              \* the legion's file watcher (watch_files.watch) and the files
    mloop            \* the locals of legion.manage() and what its last pass did

vars == <<tasks, tasks_scoped, procs, file_event_map, exiting, resetting,
          do_stop_all, reload_config, config_running, role_set, config_file,
          roles_file, alive, zombies, sigsent, now, loop, worker_wrote,
          allow_control, response, requests, listed, edits, exit_asked,
          fw, mloop>>

\* ------------------------------------------------------------ configuration
\* A task's config: the keys of the YAML document that the supervisor reads.
\* cmd stands for every key that shapes the child's command line and
\* environment (commands, user, group, cwd, defines, ...): a different value is
\* a different command.  startcmd says whether commands.start is present, and
\* badid that the user, group or cwd of the task does not exist.
\* events is a subset of {"file_cmd", "stop_cmd", "restart_cmd"}: a file_change
\* event bound to a command, a stop event bound to the command named stop, a
\* restart event bound to a command.
Conf(control, count, requires, roles, start_delay, onexit, events, cmd) ==
    [control |-> control, count |-> count, requires |-> requires,
     roles |-> roles, start_delay |-> start_delay, time_limit |-> 0,
     onexit |-> onexit, events |-> events, cmd |-> cmd, startcmd |-> TRUE,
     badid |-> FALSE]

NullConf == Conf("wait", 1, {}, {}, 0, {}, {}, 0)

\* The documents the config file can hold.
Doc(d) ==
    CASE d = 1 -> [n \in {"A", "B"} |->
                    IF n = "A" THEN Conf("once", 1, {}, {}, 0, {}, {}, 1)
                               ELSE Conf("wait", 2, {"A"}, {}, 0, {}, {}, 1)]
      [] d = 2 -> [n \in {"A", "B"} |->
                    IF n = "A" THEN Conf("wait", 1, {}, {}, 0, {}, {}, 1)
                               ELSE Conf("wait", 1, {"A"}, {}, 0, {}, {}, 1)]
      [] d = 3 -> [n \in {"B"} |-> Conf("wait", 1, {}, {}, 0, {}, {}, 1)]
      [] d = 4 -> [n \in {"A", "B"} |->
                    IF n = "A" THEN Conf("event", 1, {}, {}, 0, {}, {}, 1)
                               ELSE Conf("wait", 1, {"A"}, {}, 0, {}, {}, 1)]
      [] d = 5 -> [n \in {"A", "B"} |->
                    IF n = "A" THEN Conf("wait", 1, {"B"}, {}, 0, {}, {}, 1)
                               ELSE Conf("wait", 1, {"A"}, {}, 0, {}, {}, 1)]
      [] d = 6 -> [n \in {"A", "B"} |->
                    IF n = "A" THEN Conf("once", 2, {}, {}, 0, {}, {}, 1)
                               ELSE Conf("wait", 1, {"A"}, {}, 0, {}, {}, 1)]
      [] d = 7 -> [n \in {"A", "B"} |->
                    IF n = "A" THEN Conf("wait", 1, {}, {}, 0, {}, {"file_cmd"}, 1)
                               ELSE Conf("wait", 1, {"A"}, {}, 0, {}, {}, 1)]
      [] d = 9 -> [n \in {"A", "B"} |->
                    IF n = "A" THEN Conf("once", 1, {}, {}, 0, {}, {}, 1)
                               ELSE Conf("wait", 1, {}, {}, 0, {"A"}, {}, 1)]
      [] d = 10 -> [n \in {"A", "B"} |->
                    IF n = "A" THEN Conf("wait", 1, {}, {}, 0, {}, {}, 1)
                               ELSE Conf("wait", 1, {}, {}, 0, {"A"}, {}, 1)]
      [] d = 11 -> [n \in {"A", "B"} |->
                    IF n = "A" THEN Conf("event", 1, {}, {}, 0, {}, {}, 1)
                               ELSE Conf("wait", 1, {}, {}, 0, {"A"}, {}, 1)]
      [] d = 12 -> [n \in {"A", "B"} |->
                    IF n = "A" THEN Conf("wait", 1, {}, {}, 0, {}, {}, 1)
                               ELSE Conf("suspend", 1, {"A"}, {}, 0, {}, {}, 1)]
      [] d = 13 -> [n \in {"A", "B"} |->
                    IF n = "A"
                    THEN [Conf("once", 1, {}, {}, 0, {}, {}, 1) EXCEPT !.startcmd = FALSE]
                    ELSE Conf("wait", 1, {"A"}, {}, 0, {}, {}, 1)]
      [] d = 14 -> [n \in {"A", "B"} |->
                    IF n = "A"
                    THEN [Conf("wait", 1, {}, {}, 0, {}, {}, 1) EXCEPT !.badid = TRUE]
                    ELSE Conf("wait", 1, {"A"}, {}, 0, {}, {}, 1)]
      [] d = 16 -> [n \in {"A", "B"} |->
                    IF n = "A" THEN Conf("once", 1, {}, {}, 0, {}, {}, 1)
                               ELSE Conf("suspend", 1, {"A"}, {}, 0, {}, {}, 1)]
      [] d = 17 -> [n \in {"A", "B"} |->
                    IF n = "A" THEN Conf("wait", 1, {}, {"r1"}, 0, {}, {}, 1)
                               ELSE Conf("wait", 1, {}, {"r2"}, 0, {}, {}, 1)]
      [] d = 18 -> [n \in {"A", "B"} |->
                    IF n = "A" THEN Conf("off", 1, {}, {}, 0, {}, {"file_cmd"}, 1)
                               ELSE Conf("wait", 1, {}, {}, 0, {}, {}, 1)]
      [] OTHER -> [n \in {"A", "B"} |->
                    IF n = "A" THEN Conf("off", 1, {}, {}, 0, {}, {}, 1)
                               ELSE Conf("wait", 1, {}, {}, 0, {}, {}, 1)]

BadDoc == 0     \* a config file that does not load (bad YAML, no tasks key)
NullTasksDoc == 15   \* a config file whose tasks key has no value (tasks: null)

\* ------------------------------------------------------------- task objects
NewSlot == [pid |-> None, started |-> None, next_sig |-> None, pending_sig |-> ""]

NewTask ==
    [config_pending |-> NullConf, config_running |-> NullConf,
     has_running |-> FALSE, aliased |-> FALSE, proc_state |-> <<>>,
     starting |-> None, started |-> None, suspended |-> None,
     stopping |-> None, terminated |-> None, killed |-> None,
     stopped |-> None, dnr |-> None, limit |-> None]

_reset_state(T) ==
    [T EXCEPT !.starting = None, !.started = None, !.suspended = None,
              !.stopping = None, !.terminated = None, !.killed = None,
              !.stopped = None, !.dnr = None, !.limit = None]

\* time.time() for a field that the program only tests for None and prints:
\* starting, terminated, limit, _exiting and the slots' started and next_sig
\* are compared with the clock and hold the time itself, the other state
\* flags hold this.
stamp(s) == IF s.now > 0 THEN 1 ELSE None

get_pids(T) == {T.proc_state[i].pid : i \in DOMAIN T.proc_state} \ {None}

\* A handler running on an HTTP worker thread leaves a mark for what it writes.
Mark(s, what) ==
    IF s.thr = "worker" THEN [s EXCEPT !.worker_wrote = @ \cup {what}] ELSE s

\* os.kill(): SIGKILL ends the child at once; any other signal is left to the
\* child, which may exit on it or ignore it.
os_kill(s, pids, sig) ==
    LET hit == pids \cap s.alive IN
    IF sig = "KILL"
    THEN [s EXCEPT !.alive = @ \ hit, !.zombies = @ \cup hit,
                   !.sigsent = [p \in DOMAIN @ |-> IF p \in hit THEN "KILL" ELSE @[p]]]
    ELSE [s EXCEPT !.sigsent = [p \in DOMAIN @ |-> IF p \in hit THEN sig ELSE @[p]]]

_signal(s, t, sig) == os_kill(s, get_pids(s.tasks[t]), sig)

\* os.fork() in _exec_process: the OS hands out the lowest free pid.
FreePids(s) == Pids \ (s.alive \cup s.zombies)
NextPid(s) == IF FreePids(s) = {} THEN None
              ELSE CHOOSE p \in FreePids(s) : \A q \in FreePids(s) : p <= q
_exec_process(s) ==
    IF FreePids(s) = {} THEN [s EXCEPT !.nofork = TRUE]
    ELSE LET pid == NextPid(s) IN
         Mark([s EXCEPT !.alive = @ \cup {pid},
                        !.sigsent = [p \in Pids |-> IF p = pid THEN "" ELSE @[p]]],
              "fork")

proc_add(s, pid, name, handler) ==
    Mark([s EXCEPT !.procs = (pid :> [name |-> name, handler |-> handler]) @@ @],
         "procs")

proc_del(s, pid) ==
    IF pid \in DOMAIN s.procs
    THEN Mark([s EXCEPT !.procs = [p \in DOMAIN @ \ {pid} |-> @[p]]], "procs")
    ELSE s

\* ------------------------------------------------------- scope and ordering
\* task.participant(): the pending control is not off and the roles match.
participant(s, t) ==
    LET conf == s.tasks[t].config_pending IN
    IF conf.control = "off" THEN FALSE
    ELSE IF s.role_set = NoRoleSet THEN TRUE
    ELSE IF conf.roles = {} THEN TRUE
    ELSE conf.roles \cap s.role_set # {}

get_config(s, t, pending) ==
    IF pending THEN s.tasks[t].config_pending ELSE s.tasks[t].config_running

\* task.get_requires() raises when a required task does not exist, and when
\* the running config is asked for and there is none.
get_requires_raises(s, t, pending) ==
    \/ ~pending /\ ~s.tasks[t].has_running
    \/ ~(get_config(s, t, pending).requires \subseteq DOMAIN s.tasks)

get_requires(s, t, pending) == get_config(s, t, pending).requires

Range(seq) == {seq[i] : i \in DOMAIN seq}

\* The pass without the test that the requirements are already in the order.
RECURSIVE task_list_pass_unchecked(_, _, _, _, _)
task_list_pass_unchecked(s, pending, tl, i, acc) ==
    IF i > Len(tl) THEN acc
    ELSE IF tl[i] \in Range(acc.order)
    THEN task_list_pass_unchecked(s, pending, tl, i + 1, acc)
    ELSE task_list_pass_unchecked(s, pending, tl, i + 1,
                                  [order |-> Append(acc.order, tl[i]), changed |-> TRUE])

\* One pass of task_list()'s inner loop, from position i of the list tl.
RECURSIVE task_list_pass(_, _, _, _, _)
task_list_pass(s, pending, tl, i, acc) ==
    IF i > Len(tl) THEN acc
    ELSE LET t == tl[i] IN
         IF t \in Range(acc.order)
         THEN task_list_pass(s, pending, tl, i + 1, acc)
         ELSE IF get_requires(s, t, pending) \subseteq Range(acc.order)
         THEN task_list_pass(s, pending, tl, i + 1,
                             [order |-> Append(acc.order, t), changed |-> TRUE])
         ELSE task_list_pass(s, pending, tl, i + 1, acc)

RECURSIVE task_list_loop(_, _, _, _)
task_list_loop(s, pending, tl, order) ==
    IF Len(tl) > Len(order)
    THEN LET r == task_list_pass(s, pending, tl, 1,
                                 [order |-> order, changed |-> FALSE]) IN
         IF ~r.changed THEN [ok |-> FALSE, order |-> r.order]
         ELSE task_list_loop(s, pending, tl, r.order)
    ELSE [ok |-> TRUE, order |-> order]

\* legion.task_list(): ord is the order in which Python iterates the set
\* legion._tasks.  ok is FALSE when TaskError is raised.
task_list(s, pending, ord) ==
    LET tl == SelectSeq(ord, LAMBDA t : t \in DOMAIN s.tasks /\ participant(s, t)) IN
    IF \E i \in DOMAIN tl : get_requires_raises(s, tl[i], pending)
    THEN [ok |-> FALSE, order |-> <<>>]
    ELSE task_list_loop(s, pending, tl, <<>>)

\* ------------------------------------------------------------ event targets
Raise(s) == [s EXCEPT !.exc = TRUE]

\* event_target.command(): fork the configured command and register its exit.
\* A command the running config does not define is logged and skipped.
event_command(s, t, arg) ==
    LET T == s.tasks[t] IN
    IF ~T.has_running THEN Raise(s)
    ELSE IF arg \notin T.config_running.events THEN s
    ELSE LET pid == NextPid(s) IN
         proc_add(_exec_process(s), pid, t, "command_exit")

\* task.onexit() without the test of the target's control.
onexit_any_control(s, t, ord) ==
    LET conf == s.tasks[t].config_running
        named == conf.onexit \cap DOMAIN s.tasks
        tl == task_list(s, FALSE, ord)
    IN  IF conf.onexit = {} THEN s
        ELSE IF s.exiting # None THEN s
        ELSE IF named = {} THEN s
        ELSE IF ~tl.ok THEN Raise(s)
        ELSE [s EXCEPT !.tasks = [n \in DOMAIN @ |->
                 IF n \in named /\ n \in Range(tl.order)
                 THEN _reset_state(@[n]) ELSE @[n]]]

\* task.onexit(): an onexit start action resets the state of its target when
\* the target exists, is in scope and has a once control.
onexit(s, t, ord) ==
    LET conf == s.tasks[t].config_running
        named == conf.onexit \cap DOMAIN s.tasks
        tl == task_list(s, FALSE, ord)
    IN  IF conf.onexit = {} THEN s
        ELSE IF s.exiting # None THEN s
        ELSE IF named = {} THEN s
        ELSE IF ~tl.ok THEN Raise(s)
        ELSE [s EXCEPT !.tasks = [n \in DOMAIN @ |->
                 IF /\ n \in named
                    /\ n \in Range(tl.order)
                    /\ @[n].config_running.control \in once_controls
                 THEN _reset_state(@[n]) ELSE @[n]]]

\* event_target.proc_exit(): clear the slot; the last exit stops the task.
proc_exit(s, pid, ord) ==
    LET t == s.procs[pid].name IN
    IF t \notin DOMAIN s.tasks THEN s
    ELSE LET T == s.tasks[t]
             hit == {i \in DOMAIN T.proc_state : T.proc_state[i].pid = pid}
         IN  IF hit = {} THEN s
             ELSE LET ps == [i \in DOMAIN T.proc_state |->
                               IF i \in hit
                               THEN [T.proc_state[i] EXCEPT !.pid = None,
                                        !.pending_sig = "", !.next_sig = None]
                               ELSE T.proc_state[i]]
                      T1 == [T EXCEPT !.proc_state = ps]
                  IN  IF get_pids(T1) = {}
                      THEN onexit([s EXCEPT !.tasks[t] =
                                      [T1 EXCEPT !.started = None, !.stopping = None,
                                                 !.stopped = stamp(s)]], t, ord)
                      ELSE [s EXCEPT !.tasks[t] = T1]

\* event_target.command_exit(): the exit of a command is only logged.
command_exit(s, pid) == s

\* ------------------------------------------------------- task state machine
\* task._shrink(): signal the live process of every slot from needed on,
\* SIGTERM first and SIGKILL once the escalation time has passed.
RECURSIVE _shrink_from(_, _, _)
_shrink_from(s, t, i) ==
    LET T == s.tasks[t] IN
    IF i > Len(T.proc_state) THEN s
    ELSE LET proc == T.proc_state[i]
             sig == IF proc.pending_sig = "" THEN "TERM" ELSE proc.pending_sig
         IN  IF proc.pid = None THEN _shrink_from(s, t, i + 1)
             ELSE IF proc.next_sig = None \/ proc.next_sig < s.now
             THEN _shrink_from(
                    [os_kill(s, {proc.pid}, sig) EXCEPT
                        !.tasks[t].proc_state[i].pending_sig = "KILL",
                        !.tasks[t].proc_state[i].next_sig = s.now + sigkill_escalation],
                    t, i + 1)
             ELSE _shrink_from(
                    [s EXCEPT !.tasks[t].proc_state[i].pending_sig = sig], t, i + 1)

_shrink(s, t, needed) == _shrink_from(s, t, needed + 1)

\* task._mark_started()
_mark_started(s, t) ==
    LET limit == s.tasks[t].config_running.time_limit IN
    [s EXCEPT !.tasks[t].started = stamp(s),
              !.tasks[t].limit = IF limit > 0 THEN s.now + limit ELSE @]

running_control(T) == IF T.has_running THEN T.config_running.control ELSE "none"

\* task._event_deregister(): drop the file_change registration of the running
\* config's events.
_event_deregister(s, t) ==
    IF "file_cmd" \in s.tasks[t].config_running.events
    THEN [s EXCEPT !.file_event_map = @ \ {t}] ELSE s

\* task._event_register()
_event_register(s, t) ==
    IF "file_cmd" \in s.tasks[t].config_running.events
    THEN [s EXCEPT !.file_event_map = @ \cup {t}] ELSE s

\* task.stop(): the first call marks the task stopping and terminated and
\* fires the restart event, the stop event or SIGTERM; later calls escalate to
\* SIGKILL, and record stopped once a stopping task has no process left.
stop(s, t, task_is_resetting) ==
    LET T == s.tasks[t]
        running == Cardinality(get_pids(T))
        control == running_control(T)
        events == IF T.has_running THEN T.config_running.events ELSE {}
        is_resetting == (s.exiting # None /\ s.resetting # None) \/ task_is_resetting
        s1 == [s EXCEPT !.tasks[t].stopping = IF @ = None THEN stamp(s) ELSE @,
                        !.tasks[t].terminated = s.now]
    IN  IF T.stopped # None THEN s
        ELSE IF T.stopping # None /\ running = 0
        THEN [s EXCEPT !.tasks[t] = [_reset_state(T) EXCEPT !.stopped = stamp(s)]]
        ELSE IF T.terminated # None
        THEN IF T.killed # None THEN s
             ELSE IF T.terminated + sigkill_escalation < s.now
             THEN [_signal(s, t, "KILL") EXCEPT !.tasks[t].killed = stamp(s)]
             ELSE s
        ELSE IF /\ ~(T.limit # None /\ s.now > T.limit)
                /\ T.stopping # None /\ s.exiting = None
        THEN s
        ELSE IF is_resetting /\ "restart_cmd" \in events
        THEN event_command(s1, t, "restart_cmd")
        ELSE IF "stop_cmd" \in events /\ control \notin once_controls
        THEN event_command(s1, t, "stop_cmd")
        ELSE _signal(s1, t, "TERM")

\* legion.task_del(), reached from task.close(): the task leaves the name map,
\* the task set and the scope, is stopped (an exception of stop() is logged),
\* and its pids leave the pid map.
RECURSIVE proc_del_all(_, _)
proc_del_all(s, pids) ==
    IF pids = {} THEN s
    ELSE LET p == CHOOSE q \in pids : TRUE IN proc_del_all(proc_del(s, p), pids \ {p})

task_del(s, t) ==
    LET s1 == [stop(s, t, FALSE) EXCEPT !.exc = s.exc]
        pids == get_pids(s1.tasks[t])
    IN  proc_del_all([s1 EXCEPT !.tasks = [n \in DOMAIN @ \ {t} |-> @[n]],
                                !.tasks_scoped = @ \ {t}], pids)

\* task.close()
close(s, t) == task_del(_event_deregister(s, t), t)

\* The instance loop without the reexec_delay test.
RECURSIVE _start_instances_nodelay(_, _, _, _)
_start_instances_nodelay(s, t, i, needed) ==
    IF i > needed THEN s
    ELSE LET ps == s.tasks[t].proc_state
             pid == NextPid(s)
             forked == proc_add(_exec_process(s), pid, t, "proc_exit")
         IN
         IF i <= Len(ps) /\ ps[i].pid # None
         THEN _start_instances_nodelay(s, t, i + 1, needed)
         ELSE IF i <= Len(ps)
         THEN _start_instances_nodelay(
                [forked EXCEPT !.tasks[t].proc_state[i].pid = pid,
                               !.tasks[t].proc_state[i].started = s.now],
                t, i + 1, needed)
         ELSE _start_instances_nodelay(
                [forked EXCEPT !.tasks[t].proc_state =
                    Append(@, [NewSlot EXCEPT !.pid = pid, !.started = s.now])],
                t, i + 1, needed)

\* The instance loop of task._start(): slot i (counted from 1) gets a process
\* unless it has one, or its last start is less than reexec_delay ago.
\* _exec_process() raises TaskError before it forks when the user, group or
\* cwd is bad: the exception ends the loop and is logged by _start().
RECURSIVE _start_instances(_, _, _, _)
_start_instances(s, t, i, needed) ==
    IF i > needed THEN s
    ELSE LET ps == s.tasks[t].proc_state
             pid == NextPid(s)
             badid == s.tasks[t].config_running.badid
             forked == proc_add(_exec_process(s), pid, t, "proc_exit")
         IN
         IF i <= Len(ps)
         THEN LET proc == ps[i]
                  pstarted == IF proc.started = None THEN s.now ELSE proc.started
                  last_start_delta == s.now - pstarted
              IN  IF proc.pid # None THEN _start_instances(s, t, i + 1, needed)
                  ELSE IF last_start_delta < 0
                  THEN _start_instances(
                         [s EXCEPT !.tasks[t].proc_state[i].started = s.now],
                         t, i + 1, needed)
                  ELSE IF last_start_delta < reexec_delay
                  THEN _start_instances(
                         [s EXCEPT !.tasks[t].proc_state[i].started = pstarted],
                         t, i + 1, needed)
                  ELSE IF badid
                  THEN [s EXCEPT !.tasks[t].proc_state[i].started = pstarted]
                  ELSE _start_instances(
                         [forked EXCEPT !.tasks[t].proc_state[i].pid = pid,
                                        !.tasks[t].proc_state[i].started = s.now],
                         t, i + 1, needed)
         ELSE IF badid
         THEN [s EXCEPT !.tasks[t].proc_state = Append(@, NewSlot)]
         ELSE _start_instances(
                [forked EXCEPT !.tasks[t].proc_state =
                    Append(@, [NewSlot EXCEPT !.pid = pid, !.started = s.now])],
                t, i + 1, needed)

\* The requires-check left out.
requires_unmet_skipped(s, t) == FALSE

\* The requires-check without the case of a once requirement.
requires_unmet_started(s, t) ==
    \E r \in get_requires(s, t, FALSE) : s.tasks[r].started = None

\* The requires-check of task._start(): some requirement is not yet satisfied.
requires_unmet(s, t) ==
    \E r \in get_requires(s, t, FALSE) :
        IF s.tasks[r].config_running.control = "once"
        THEN s.tasks[r].stopped = None
        ELSE s.tasks[r].started = None

\* The part of task._start() inside its try block.
_start_processes(s, t) ==
    LET T == s.tasks[t]
        conf == T.config_running
        control == conf.control
        needed == conf.count
        running == Cardinality(get_pids(T))
        s1 == [s EXCEPT !.tasks[t].starting = s.now]
        s2 == IF conf.start_delay = 0 THEN _mark_started(s1, t) ELSE s1
    IN  IF ~conf.startcmd THEN s
        ELSE IF control # "suspend" /\ needed < running THEN _shrink(s, t, needed)
        ELSE IF control # "suspend" /\ needed = running THEN s
        ELSE IF control = "suspend"
        THEN IF T.suspended # None THEN s2
             ELSE IF running > 0 THEN _shrink(s2, t, 0)
             ELSE [s2 EXCEPT !.tasks[t].suspended = stamp(s)]
        ELSE _start_instances([s2 EXCEPT !.tasks[t].suspended = None], t, 1, needed)

\* task._start() from the requires-check on.
_start_checked(s, t) ==
    LET T == s.tasks[t]
        control == T.config_running.control
    IN  IF T.starting # None /\ T.started = None
        THEN IF s.now > T.starting + T.config_running.start_delay
             THEN _mark_started(s, t) ELSE s
        ELSE IF ~(T.started # None /\ control # "suspend")
                /\ get_requires_raises(s, t, FALSE)
        THEN Raise(s)
        ELSE IF ~(T.started # None /\ control # "suspend")
                /\ \E r \in get_requires(s, t, FALSE) : ~s.tasks[r].has_running
        THEN Raise(s)
        ELSE IF ~(T.started # None /\ control # "suspend") /\ requires_unmet(s, t)
        THEN s
        ELSE _start_processes(
               IF control \in once_controls
               THEN [s EXCEPT !.tasks[t].stopping = stamp(s)] ELSE s, t)

\* task._start() without the rest of a stopped once task.
_start_restarts_once(s, t) ==
    LET T == s.tasks[t]
        control == T.config_running.control
        s1 == IF control = "event" /\ T.stopped = None
              THEN [s EXCEPT !.tasks[t].stopped = stamp(s)] ELSE s
    IN  IF T.stopping # None THEN s
        ELSE IF s1.tasks[t].stopped # None
        THEN IF T.dnr # None THEN close(s1, t)
             ELSE _start_checked([s1 EXCEPT !.tasks[t] = _reset_state(@)], t)
        ELSE _start_checked(s1, t)

\* task._start()
_start(s, t) ==
    LET T == s.tasks[t]
        control == T.config_running.control
        s1 == IF control = "event" /\ T.stopped = None
              THEN [s EXCEPT !.tasks[t].stopped = stamp(s)] ELSE s
    IN  IF T.stopping # None THEN s
        ELSE IF s1.tasks[t].stopped # None
        THEN IF T.dnr # None THEN close(s1, t)
             ELSE IF control \in once_controls THEN s1
             ELSE _start_checked([s1 EXCEPT !.tasks[t] = _reset_state(@)], t)
        ELSE _start_checked(s1, t)

\* task.manage()
manage(s, t) ==
    LET T == s.tasks[t] IN
    IF T.stopping # None THEN stop(s, t, FALSE)
    ELSE IF T.started # None /\ T.limit # None /\ s.now > T.limit
    THEN stop(s, t, FALSE)
    ELSE IF s.exiting # None THEN s
    ELSE _start(s, t)

\* task.terminate()
terminate(s, t) == stop([s EXCEPT !.tasks[t].dnr = stamp(s)], t, FALSE)

\* A comparison that reports a change of the command every time.
_command_change_always(T) == TRUE

\* task._command_change(): the keys control, pidfile, onexit, requires and
\* start_delay are not compared.  (The documents of the model carry no
\* defines, so the formatting context follows from the compared keys.)
_command_change(T) ==
    LET r == T.config_running
        p == T.config_pending
    IN  \/ ~T.has_running
        \/ r.count # p.count
        \/ r.roles # p.roles
        \/ r.events # p.events
        \/ r.time_limit # p.time_limit
        \/ r.cmd # p.cmd
        \/ r.startcmd # p.startcmd
        \/ r.badid # p.badid

\* task.set_config(): the pending config becomes a fresh copy.
set_config(s, t, conf) ==
    [s EXCEPT !.tasks[t].config_pending = conf, !.tasks[t].aliased = FALSE]

\* task.apply(): after it the running config is the very dict that is the
\* pending config, until set_config() replaces the pending one.
apply(s, t) ==
    LET T == s.tasks[t]
        s1 == IF _command_change(T) /\ get_pids(T) # {}
              THEN stop(_event_deregister(s, t), t, TRUE) ELSE s
        s2 == Mark([s1 EXCEPT !.tasks[t].config_running = T.config_pending,
                              !.tasks[t].has_running = TRUE,
                              !.tasks[t].aliased = TRUE], "config_running")
        s3 == IF T.config_pending.control \in run_controls
              THEN _event_register(s2, t) ELSE s2
    IN  IF s1.exc THEN s1 ELSE manage(s3, t)

\* ------------------------------------------------------------------- legion
\* legion.stop_all(): stop() on every task of the name map, in the order ord.
RECURSIVE stop_seq(_, _, _)
stop_seq(s, ord, i) ==
    IF i > Len(ord) \/ s.exc THEN s
    ELSE IF ord[i] \in DOMAIN s.tasks
    THEN stop_seq(stop(s, ord[i], FALSE), ord, i + 1)
    ELSE stop_seq(s, ord, i + 1)

stop_all(s, ord) == stop_seq(s, ord, 1)

\* The two loops of legion._apply().
RECURSIVE _apply_unscope(_, _, _, _)
_apply_unscope(s, ord, i, target) ==
    IF i > Len(ord) \/ s.exc THEN s
    ELSE IF ord[i] \in s.tasks_scoped /\ ord[i] \notin Range(target)
    THEN _apply_unscope(stop([s EXCEPT !.tasks_scoped = @ \ {ord[i]}], ord[i], FALSE),
                        ord, i + 1, target)
    ELSE _apply_unscope(s, ord, i + 1, target)

RECURSIVE _apply_tasks(_, _, _)
_apply_tasks(s, target, i) ==
    IF i > Len(target) \/ s.exc THEN s
    ELSE _apply_tasks(apply([s EXCEPT !.tasks_scoped = @ \cup {target[i]}], target[i]),
                      target, i + 1)

\* legion._apply(): TaskError from task_list() leaves before any change.
_apply(s, ord) ==
    LET target == task_list(s, TRUE, ord) IN
    IF s.exc THEN s
    ELSE IF ~target.ok THEN Raise(s)
    ELSE _apply_tasks(_apply_unscope(s, ord, 1, target.order), target.order, 1)

\* legion._load_roles()
_load_roles(s) ==
    IF s.role_set = s.roles_file THEN s
    ELSE Mark([s EXCEPT !.role_set = s.roles_file], "role_set")

\* The two loops of legion._load_config().
RECURSIVE _load_terminate(_, _, _, _)
_load_terminate(s, ord, i, new_config) ==
    IF i > Len(ord) \/ s.exc THEN s
    ELSE IF ord[i] \in DOMAIN s.tasks /\ ord[i] \notin DOMAIN new_config
    THEN _load_terminate(terminate(s, ord[i]), ord, i + 1, new_config)
    ELSE _load_terminate(s, ord, i + 1, new_config)

_load_set_config(s, new_config) ==
    [s EXCEPT !.tasks = [n \in DOMAIN @ \cup DOMAIN new_config |->
        IF n \notin DOMAIN new_config THEN @[n]
        ELSE [(IF n \in DOMAIN @ THEN @[n] ELSE NewTask) EXCEPT
                 !.config_pending = new_config[n], !.aliased = FALSE]]]

\* legion._load_config(): a document that cannot be loaded changes nothing.
\* A document whose tasks key holds None becomes the running config, and the
\* first loop over it raises TypeError.
_load_config(s, ord) ==
    IF s.config_file = BadDoc THEN s
    ELSE LET new_config == Doc(s.config_file)
             s1 == Mark([s EXCEPT !.config_running = s.config_file], "config_running")
         IN  IF s.config_file = NullTasksDoc THEN Raise(s1)
             ELSE
             _apply(_load_set_config(_load_terminate(s1, ord, 1, new_config),
                                     new_config), ord)

\* A reap that hands the exit to the event target and leaves the pid in the
\* pid map.
RECURSIVE _reap_keeps_pid(_, _, _, _)
_reap_keeps_pid(s, ord, rord, i) ==
    IF i > Len(rord) \/ s.exc THEN s
    ELSE LET pid == rord[i] IN
         IF pid \notin s.zombies THEN _reap_keeps_pid(s, ord, rord, i + 1)
         ELSE LET s1 == [s EXCEPT !.zombies = @ \ {pid},
                            !.sigsent = [p \in Pids |-> IF p = pid THEN "" ELSE @[p]]]
                  s2 == IF pid \notin DOMAIN s1.procs THEN s1
                        ELSE IF s1.procs[pid].handler = "proc_exit"
                        THEN proc_exit(s1, pid, ord)
                        ELSE command_exit(s1, pid)
              IN  _reap_keeps_pid(s2, ord, rord, i + 1)

\* legion._reap(): every exited child is waited for, its event target is
\* handled and its pid leaves the pid map.  rord is the order of the waits.
RECURSIVE _reap(_, _, _, _)
_reap(s, ord, rord, i) ==
    IF i > Len(rord) \/ s.exc THEN s
    ELSE LET pid == rord[i] IN
         IF pid \notin s.zombies THEN _reap(s, ord, rord, i + 1)
         ELSE LET s1 == [s EXCEPT !.zombies = @ \ {pid},
                            !.sigsent = [p \in Pids |-> IF p = pid THEN "" ELSE @[p]]]
                  s2 == IF pid \notin DOMAIN s1.procs THEN s1
                        ELSE IF s1.procs[pid].handler = "proc_exit"
                        THEN proc_exit(s1, pid, ord)
                        ELSE command_exit(s1, pid)
              IN  _reap(IF s2.exc THEN s2 ELSE proc_del(s2, pid), ord, rord, i + 1)

\* The idle pass of legion.manage(): task.manage() on every scoped task.
RECURSIVE manage_seq(_, _, _, _)
manage_seq(s, ord, i, scoped) ==
    IF i > Len(ord) \/ s.exc THEN s
    ELSE IF ord[i] \in scoped /\ ord[i] \in DOMAIN s.tasks
    THEN manage_seq(manage(s, ord[i]), ord, i + 1, scoped)
    ELSE manage_seq(s, ord, i + 1, scoped)

\* The reload of the idle pass: an exception is logged, and leaves
\* _reload_config set.
reload(s, ord) ==
    IF s.reload_config = None THEN s
    ELSE LET r == _load_config(_load_roles(s), ord) IN
         IF r.exc THEN [r EXCEPT !.exc = FALSE]
         ELSE [r EXCEPT !.reload_config = None]

idle(s, ord, rord) ==
    LET s1 == _reap(s, ord, rord, 1)
        s2 == manage_seq(s1, ord, 1, s1.tasks_scoped)
    IN  IF s2.exc THEN s2 ELSE reload(s2, ord)

\* The head of every iteration of the loop of legion.manage().
loop_top(s, ord) ==
    IF s.do_stop_all THEN stop_all([s EXCEPT !.do_stop_all = FALSE], ord) ELSE s

still_running(s) ==
    Cardinality(UNION {get_pids(s.tasks[t]) : t \in s.tasks_scoped})

loop_breaks(s) ==
    /\ s.exiting # None
    /\ \/ s.exiting + sigterm_limit < s.now
       \/ still_running(s) = 0

\* A handler that leaves a pending reset as it is.
_sig_handler_nocoerce(s, sig, ord) ==
    stop_all([s EXCEPT !.exiting = s.now,
                       !.resetting = IF sig = "HUP" THEN stamp(s) ELSE @], ord)

\* legion._sig_handler() for SIGTERM, SIGINT and SIGHUP.
_sig_handler(s, sig, ord) ==
    stop_all([s EXCEPT !.exiting = s.now,
                       !.resetting = IF sig = "HUP" THEN stamp(s) ELSE None], ord)

\* --------------------------------------------------- HTTP control handlers
\* manage.http.control() runs on a worker thread of the HTTP service.  A
\* callback that raises is answered with 500 by the request handler.
\* Writing a key of the pending dict writes the running dict while they are
\* the same dict.
set_pending_control(s, t, v) ==
    LET s1 == [s EXCEPT !.tasks[t].config_pending.control = v] IN
    IF s.tasks[t].aliased
    THEN Mark([s1 EXCEPT !.tasks[t].config_running.control = v], "config_running")
    ELSE s1

set_pending_count(s, t, v) ==
    LET s1 == [s EXCEPT !.tasks[t].config_pending.count = v] IN
    IF s.tasks[t].aliased
    THEN Mark([s1 EXCEPT !.tasks[t].config_running.count = v], "config_running")
    ELSE s1

Reply(s, code) == [s EXCEPT !.response = code, !.exc = FALSE]

RECURSIVE control_write(_, _, _)
control_write(s, postmap, names) ==
    IF names = {} THEN s
    ELSE LET n == CHOOSE m \in names : TRUE IN
         control_write(set_pending_control(s, n, postmap[n]), postmap, names \ {n})

\* A handler that writes the valid pairs of a request it rejects.
http_control_partial(s, postmap, ord) ==
    LET valid == {n \in DOMAIN postmap :
                    /\ n \in DOMAIN s.tasks
                    /\ postmap[n] \in all_controls
                    /\ s.tasks[n].has_running}
        change_detected == \E n \in valid : s.tasks[n].config_running.control # postmap[n]
        s1 == control_write(s, postmap, valid)
        s2 == _apply(s1, ord)
    IN  IF ~s.allow_control THEN Reply(s, 403)
        ELSE IF valid # DOMAIN postmap THEN Reply(s1, 404)
        ELSE IF change_detected
        THEN (IF s2.exc THEN Reply(s2, 500) ELSE Reply(s2, 202))
        ELSE Reply(s1, 200)

\* /manage/control: postmap maps task names to controls.
http_control(s, postmap, ord) ==
    LET error_detected == \E n \in DOMAIN postmap :
            \/ n \notin DOMAIN s.tasks
            \/ postmap[n] \notin all_controls
            \/ ~s.tasks[n].has_running
        change_detected == \E n \in DOMAIN postmap :
            /\ n \in DOMAIN s.tasks
            /\ postmap[n] \in all_controls
            /\ s.tasks[n].has_running
            /\ s.tasks[n].config_running.control # postmap[n]
        s1 == control_write(s, postmap, DOMAIN postmap)
        s2 == _apply(s1, ord)
    IN  IF ~s.allow_control THEN Reply(s, 403)
        ELSE IF error_detected THEN Reply(s, 404)
        ELSE IF change_detected
        THEN (IF s2.exc THEN Reply(s2, 500) ELSE Reply(s2, 202))
        ELSE Reply(s1, 200)

\* The scan of /manage/count over the posted names in the order pord:
\* error_detected starts True and is set by the entries that reach a task.
RECURSIVE count_scan(_, _, _, _, _)
count_scan(s, postmap, pord, i, acc) ==
    IF i > Len(pord) THEN acc
    ELSE LET n == pord[i]
             count == postmap[n]
         IN  IF n \notin DOMAIN s.tasks \/ count <= 0
             THEN count_scan(s, postmap, pord, i + 1, acc)
             ELSE IF ~s.tasks[n].has_running
             THEN count_scan(s, postmap, pord, i + 1, [acc EXCEPT !.err = TRUE])
             ELSE IF s.tasks[n].config_running.count = count
             THEN count_scan(s, postmap, pord, i + 1, [acc EXCEPT !.err = FALSE])
             ELSE count_scan(s, postmap, pord, i + 1,
                             [err |-> FALSE, chg |-> TRUE,
                              counts |-> (n :> count) @@ acc.counts])

\* counts[taskname] raises KeyError for a name that is not a change.
RECURSIVE count_write(_, _, _, _)
count_write(s, counts, pord, i) ==
    IF i > Len(pord) THEN s
    ELSE IF pord[i] \notin DOMAIN counts THEN Raise(s)
    ELSE count_write(set_pending_count(s, pord[i], counts[pord[i]]), counts, pord, i + 1)

\* /manage/count: postmap maps task names to integers.
http_count(s, postmap, pord, ord) ==
    LET scan == count_scan(s, postmap, pord, 1,
                           [err |-> TRUE, chg |-> FALSE, counts |-> <<>>])
        s1 == count_write(s, scan.counts, pord, 1)
        s2 == _apply(s1, ord)
    IN  IF ~s.allow_control THEN Reply(s, 403)
        ELSE IF scan.err THEN Reply(s, 404)
        ELSE IF scan.chg
        THEN (IF s2.exc THEN Reply(s2, 500) ELSE Reply(s2, 202))
        ELSE Reply(s, 200)

\* legion.schedule_exit() and legion.schedule_reset()
schedule_exit(s) == [s EXCEPT !.exiting = s.now, !.do_stop_all = TRUE]
schedule_reset(s) == schedule_exit([s EXCEPT !.resetting = stamp(s)])

\* The other paths served without the test of the control privilege.
http_other_unchecked(s, path) ==
    IF path = "reload" THEN Reply([s EXCEPT !.reload_config = stamp(s)], 202)
    ELSE IF path = "stop" THEN Reply(schedule_exit(s), 202)
    ELSE IF path = "reset" THEN Reply(schedule_reset(s), 202)
    ELSE Reply(s, 404)

\* /manage/reload, /manage/stop, /manage/reset and any other path
http_other(s, path) ==
    IF ~s.allow_control THEN Reply(s, 403)
    ELSE IF path = "reload" THEN Reply([s EXCEPT !.reload_config = stamp(s)], 202)
    ELSE IF path = "stop" THEN Reply(schedule_exit(s), 202)
    ELSE IF path = "reset" THEN Reply(schedule_reset(s), 202)
    ELSE Reply(s, 404)

\* ------------------------------------------------------------ watch_files.watch
\* The watcher and the files it watches, as one record w.  The fields paths,
\* paths_open, paths_pending, fds_open, last_changes, poll_stat and
\* poll_pending are the attributes of the object; pipe says that the self-pipe
\* of polling mode holds data; evq is the queue of events the kernel holds for
\* the kqueue or the inotify descriptor, as pairs <<descriptor, kind>>; kw maps
\* every descriptor the object holds (an open file, or an inotify watch) to the
\* file it is attached to, <<path, inode>>; file maps a path to the inode there
\* (0: no file) and its stat state; nops counts the changes made to the files.  exc says
\* that the last call raised, res is what _add_file() returned.  The history
\* fields: want is the set of paths added by a call that returned, less those
\* removed; dirty says that paths were added or removed with commit=False
\* since the last commit; broken that a commit() has raised.
\* The modes WF_POLLING, WF_KQUEUE and WF_INOTIFYX.
wf_polling == "polling"
wf_kqueue == "kqueue"
wf_inotifyx == "inotifyx"
Modes == {wf_polling, wf_kqueue, wf_inotifyx}

Paths == {"p", "q"}
Fds == 1..Cardinality(Paths)
EmptyStat == -1             \* the stat state () that _trigger() records

Put(f, k, v) == [x \in DOMAIN f \cup {k} |-> IF x = k THEN v ELSE f[x]]
Drop(f, K) == [x \in DOMAIN f \ K |-> f[x]]

NewWatch(m) ==
    [mode |-> m, paths |-> <<>>, paths_open |-> <<>>, paths_pending |-> {},
     fds_open |-> <<>>, last_changes |-> {}, poll_stat |-> <<>>,
     poll_pending |-> {}, pipe |-> FALSE, evq |-> {}, kw |-> <<>>,
     file |-> [p \in Paths |-> [ino |-> None, mt |-> None]], nops |-> 0,
     exc |-> FALSE, res |-> "", want |-> {}, dirty |-> FALSE, broken |-> FALSE]

path_exists(w, path) == w.file[path].ino # None

\* os.open() and inotifyx.add_watch() hand out the lowest free descriptor.
fd_alloc(w) ==
    CHOOSE fd \in Fds \ DOMAIN w.kw : \A g \in Fds \ DOMAIN w.kw : fd <= g

\* watch._close(): the kernel drops the events of a closed descriptor; a
\* kqueue timer is identified by a number, not by the descriptor, and stays.
_close(w, fds) ==
    [w EXCEPT !.kw = Drop(@, fds),
              !.evq = {e \in @ : e[1] \notin fds \/ e[2] = "timer"}]

\* watch._add_file()
_add_file(w, path) ==
    IF ~path_exists(w, path)
    THEN IF ~w.paths[path] THEN [w EXCEPT !.res = "raise"]
         ELSE [w EXCEPT !.paths_pending = @ \cup {path}, !.res = "False"]
    ELSE LET fd == fd_alloc(w) IN
         [w EXCEPT !.kw = Put(@, fd, <<path, w.file[path].ino>>),
                   !.poll_stat = IF w.mode = wf_polling
                                 THEN Put(@, fd, w.file[path].mt) ELSE @,
                   !.paths_open = Put(@, path, fd),
                   !.fds_open = Put(@, fd, path),
                   !.res = "True"]

\* watch._disappeared(): a path that is not registered any more makes
\* self.paths[path] raise KeyError.
_disappeared(w, fd, path) ==
    LET w1 == _close(w, {fd})
        w2 == [w1 EXCEPT !.poll_stat = Drop(@, {fd}),
                         !.fds_open = Drop(@, {fd}),
                         !.paths_open = Drop(@, {path})]
    IN  IF path \notin DOMAIN w2.paths THEN [w2 EXCEPT !.exc = TRUE]
        ELSE IF w2.paths[path]
        THEN LET a == _add_file(w2, path) IN
             IF a.res = "True" THEN a
             ELSE [a EXCEPT !.paths_pending = @ \cup {path}]
        ELSE [w2 EXCEPT !.paths = Drop(@, {path}), !.exc = TRUE]

\* watch._poll_get_stat(): the stat state of the path, None when it has none.
_poll_get_stat(w, fd, path) ==
    IF path_exists(w, path)
    THEN [w |-> w, fstate |-> w.file[path].mt]
    ELSE [w |-> _disappeared([w EXCEPT !.poll_pending = @ \cup {path}], fd, path),
          fstate |-> None]

_poll_trigger(w) == [w EXCEPT !.pipe = TRUE]

\* watch._clean_failed_fds()
_clean_failed_fds(w, fdlist) ==
    LET known == fdlist \cap DOMAIN w.fds_open
        w1 == [w EXCEPT !.paths_open = Drop(@, {w.fds_open[fd] : fd \in known}),
                        !.fds_open = Drop(@, known)]
    IN  _close(w1, fdlist)

\* watch._trigger(): a oneshot timer named by the descriptor, an open of the
\* file under a watch for IN_OPEN, or a forgotten stat state and a byte in the
\* self-pipe.
_trigger(w, fd) ==
    IF w.mode = wf_kqueue THEN [w EXCEPT !.evq = @ \cup {<<fd, "timer">>}]
    ELSE IF w.mode = wf_inotifyx
    THEN IF fd \in DOMAIN w.fds_open /\ path_exists(w, w.fds_open[fd])
         THEN [w EXCEPT !.evq = @ \cup {<<fd, "open">>}]
         ELSE w
    ELSE _poll_trigger([w EXCEPT !.poll_stat = Put(@, fd, EmptyStat)])

\* The second loop of watch.commit(), over the registered paths in the order
\* ord of the dict.
RECURSIVE commit_add(_, _, _, _, _)
commit_add(w, ord, i, fdlist, failed) ==
    IF i > Len(ord)
    THEN IF failed
         THEN [_clean_failed_fds(w, fdlist) EXCEPT !.exc = TRUE, !.broken = TRUE]
         ELSE w
    ELSE LET path == ord[i] IN
         IF path \notin DOMAIN w.paths \/ path \in DOMAIN w.paths_open
         THEN commit_add(w, ord, i + 1, fdlist, failed)
         ELSE LET a == _add_file(w, path) IN
              IF a.res = "False" THEN commit_add(a, ord, i + 1, fdlist, failed)
              ELSE IF a.res = "raise" THEN commit_add(a, ord, i + 1, fdlist, TRUE)
              ELSE LET fd == a.paths_open[path]
                       b == IF path \in a.paths_pending
                            THEN _trigger([a EXCEPT !.paths_pending = @ \ {path}], fd)
                            ELSE a
                   IN  commit_add(b, ord, i + 1, fdlist \cup {fd}, failed)

\* watch.commit()
commit(w, ord) ==
    LET gone == DOMAIN w.paths_open \ DOMAIN w.paths
        fds == {w.paths_open[path] : path \in gone}
        w1 == _close([w EXCEPT !.poll_stat = Drop(@, fds),
                               !.fds_open = Drop(@, fds),
                               !.paths_open = Drop(@, gone),
                               !.dirty = FALSE], fds)
    IN  commit_add(w1, ord, 1, {}, FALSE)

\* The events of evs that get() aggregates for a path: those of the
\* descriptor that fds_open maps to it.
ev_kinds(w, evs, path) ==
    {e[2] : e \in {x \in evs : x[1] \in DOMAIN w.fds_open /\ w.fds_open[x[1]] = path}}

\* The loop of watch.get() over the aggregated events, in the order ord of
\* the dict; w0 is the watcher as it was when the events were read.
RECURSIVE get_events(_, _, _, _, _)
get_events(w, w0, evs, ord, i) ==
    IF i > Len(ord) THEN w
    ELSE LET path == ord[i]
             kinds == ev_kinds(w0, evs, path)
             moved == IF w.mode = wf_kqueue THEN "gone" \in kinds
                      ELSE "gone" \in kinds \/ "attrib" \in kinds
             a == IF moved THEN _disappeared(w, w0.paths_open[path], path) ELSE w
         IN  IF kinds = {} THEN get_events(w, w0, evs, ord, i + 1)
             ELSE IF a.exc THEN a
             ELSE get_events([a EXCEPT !.last_changes = @ \cup {path}],
                             w0, evs, ord, i + 1)

\* The loop of watch.get() in polling mode over list(self._poll_stat), in the
\* order ford.
RECURSIVE get_poll(_, _, _, _)
get_poll(w, snap, ford, i) ==
    IF i > Len(ford) THEN w
    ELSE LET fd == ford[i] IN
         IF fd \notin snap THEN get_poll(w, snap, ford, i + 1)
         ELSE IF fd \notin DOMAIN w.fds_open THEN [w EXCEPT !.exc = TRUE]
         ELSE LET path == w.fds_open[fd]
                  g == _poll_get_stat(w, fd, path)
              IN  IF g.w.exc THEN g.w
                  ELSE IF g.fstate = None
                  THEN get_poll([g.w EXCEPT !.last_changes = @ \cup {path}],
                                snap, ford, i + 1)
                  ELSE IF w.poll_stat[fd] # g.fstate
                  THEN get_poll([w EXCEPT !.poll_stat[fd] = g.fstate,
                                          !.last_changes = @ \cup {path}],
                                snap, ford, i + 1)
                  ELSE get_poll(w, snap, ford, i + 1)

\* watch.get(): what it returns is last_changes, sorted.
get(w, ord, ford) ==
    LET w0 == [w EXCEPT !.last_changes = {}, !.exc = FALSE] IN
    IF w.mode = wf_polling
    THEN get_poll([w0 EXCEPT !.pipe = FALSE, !.last_changes = w.poll_pending,
                             !.poll_pending = {}],
                  DOMAIN w.poll_stat, ford, 1)
    ELSE get_events([w0 EXCEPT !.evq = {}], w0, w.evq, ord, 1)

\* The loop of watch.scan() in polling mode.
RECURSIVE scan_poll(_, _, _, _)
scan_poll(w, snap, ford, i) ==
    IF i > Len(ford) THEN w
    ELSE LET fd == ford[i] IN
         IF fd \notin snap THEN scan_poll(w, snap, ford, i + 1)
         ELSE IF fd \notin DOMAIN w.fds_open THEN [w EXCEPT !.exc = TRUE]
         ELSE LET g == _poll_get_stat(w, fd, w.fds_open[fd]) IN
              IF g.w.exc THEN g.w
              ELSE IF g.fstate = None \/ w.poll_stat[fd] # g.fstate
              THEN _poll_trigger(g.w)
              ELSE scan_poll(w, snap, ford, i + 1)

\* watch.scan()
scan(w, ord, ford) ==
    LET w0 == [w EXCEPT !.exc = FALSE] IN
    IF \E path \in w.paths_pending : path_exists(w, path) THEN commit(w0, ord)
    ELSE IF w.mode = wf_polling THEN scan_poll(w0, DOMAIN w.poll_stat, ford, 1)
    ELSE w0

\* watch.add() of one path.
add(w, path, missing, cmt, ord) ==
    LET w0 == [w EXCEPT !.exc = FALSE] IN
    IF path \in DOMAIN w.paths THEN [w0 EXCEPT !.paths[path] = missing]
    ELSE LET w1 == [w0 EXCEPT !.paths = Put(@, path, missing)] IN
         IF cmt THEN commit(w1, ord) ELSE [w1 EXCEPT !.dirty = TRUE]

\* watch.remove() of one path.
remove(w, path, cmt, ord) ==
    LET w0 == [w EXCEPT !.exc = FALSE, !.paths_pending = @ \ {path}] IN
    IF path \notin DOMAIN w.paths THEN [w0 EXCEPT !.exc = TRUE]
    ELSE LET w1 == [w0 EXCEPT !.paths = Drop(@, {path})] IN
         IF cmt THEN commit(w1, ord) ELSE [w1 EXCEPT !.dirty = TRUE]

\* ------------------------------------------------------------------ actions
Perms(S) == {f \in [1..Cardinality(S) -> S] : \A i, j \in DOMAIN f : i # j => f[i] # f[j]}

St(thr) ==
    [tasks |-> tasks, tasks_scoped |-> tasks_scoped, procs |-> procs,
     file_event_map |-> file_event_map, exiting |-> exiting,
     resetting |-> resetting, do_stop_all |-> do_stop_all,
     reload_config |-> reload_config, config_running |-> config_running,
     role_set |-> role_set, config_file |-> config_file,
     roles_file |-> roles_file, alive |-> alive, zombies |-> zombies,
     sigsent |-> sigsent, now |-> now, worker_wrote |-> worker_wrote,
     allow_control |-> allow_control, response |-> response,
     thr |-> thr, exc |-> FALSE, nofork |-> FALSE]

Commit(s) ==
    /\ ~s.nofork
    /\ tasks' = s.tasks
    /\ tasks_scoped' = s.tasks_scoped
    /\ procs' = s.procs
    /\ file_event_map' = s.file_event_map
    /\ exiting' = s.exiting
    /\ resetting' = s.resetting
    /\ do_stop_all' = s.do_stop_all
    /\ reload_config' = s.reload_config
    /\ config_running' = s.config_running
    /\ role_set' = s.role_set
    /\ alive' = s.alive
    /\ zombies' = s.zombies
    /\ sigsent' = s.sigsent
    /\ worker_wrote' = s.worker_wrote
    /\ response' = s.response
    /\ exit_asked' = IF exit_asked = None /\ s.exiting # None THEN now ELSE exit_asked

\* An exception that leaves the loop of legion.manage(): the finally clause
\* stops all tasks when no exit was asked for.
Finish(s, ord) ==
    IF s.exc
    THEN /\ \E r \in {IF s.exiting = None
                      THEN stop_all([s EXCEPT !.exc = FALSE], ord) ELSE s} : Commit(r)
         /\ loop' = "crash"
    ELSE /\ Commit(s)
         /\ loop' = "run"

\* One iteration of the loop: the head, then either the break or the body.
Iteration(Body(_), ord) ==
    \E s1 \in {loop_top(St("main"), ord)} :
        IF loop_breaks(s1)
        THEN /\ Commit(s1)
             /\ loop' = IF s1.resetting # None THEN "reset" ELSE "exit"
        ELSE \E s2 \in {Body(s1)} : Finish(s2, ord)

\* set_roles_file(), set_config_file() and the entry of legion.manage().
Startup ==
    /\ loop = "init"
    /\ \E ord \in Perms(TaskNames) :
         \E s2 \in {_apply(_load_config(_load_roles(St("main")), ord), ord)} :
             /\ Commit(s2)
             /\ loop' = IF s2.exc THEN "crash" ELSE "run"
    /\ UNCHANGED <<config_file, roles_file, now, allow_control, requests, listed, edits, fw, mloop>>

IdlePass ==
    /\ loop = "run"
    /\ \E ord \in Perms(TaskNames), rord \in Perms(zombies) :
         Iteration(LAMBDA s : idle(s, ord, rord), ord)
    /\ UNCHANGED <<config_file, roles_file, now, allow_control, requests, listed, edits, fw, mloop>>

\* The self-pipe is readable: SIGCHLD arrived.
ChildEvent ==
    /\ loop = "run"
    /\ zombies # {}
    /\ \E ord \in Perms(TaskNames), rord \in Perms(zombies) :
         Iteration(LAMBDA s : _reap(s, ord, rord, 1), ord)
    /\ UNCHANGED <<config_file, roles_file, now, allow_control, requests, listed, edits, fw, mloop>>

\* The config file is rewritten and the watcher reports it: the
\* legion_config event target sets _reload_config.
ConfigFileChange ==
    /\ loop = "run"
    /\ edits # <<>>
    /\ config_file' = Head(edits)
    /\ edits' = Tail(edits)
    /\ \E ord \in Perms(TaskNames) :
         Iteration(LAMBDA s : [s EXCEPT !.reload_config = stamp(s)], ord)
    /\ UNCHANGED <<roles_file, now, allow_control, requests, listed, fw, mloop>>

\* The role sets the roles file can hold; NoRoleSet stands for a file that
\* cannot be read.
RoleFiles == {NoRoleSet, {"r1"}, {"r2"}, {"r1", "r2"}}

\* The roles file is rewritten, possibly with the same roles, and the watcher
\* reports it: the legion_config event target sets _reload_config.
RolesFileChange ==
    /\ loop = "run"
    /\ \E rf \in RoleFiles : roles_file' = rf
    /\ \E ord \in Perms(TaskNames) :
         Iteration(LAMBDA s : [s EXCEPT !.reload_config = stamp(s)], ord)
    /\ UNCHANGED <<config_file, now, allow_control, requests, listed, edits, fw, mloop>>

\* A watched file of task t changes: the loop hands the path to the event
\* target registered under the task's name.
file_dispatch(s, t) ==
    IF t \in DOMAIN s.tasks THEN event_command(s, t, "file_cmd") ELSE s

FileEvent ==
    /\ loop = "run"
    /\ \E t \in file_event_map, ord \in Perms(TaskNames) :
         Iteration(LAMBDA s : file_dispatch(s, t), ord)
    /\ UNCHANGED <<config_file, roles_file, now, allow_control, requests, listed, edits, fw, mloop>>

\* The requests the model posts.
PostNames == {"A", "B", "X"}
PostControls == {"wait", "off", "bogus"}
PostCounts == {0, 1, 2}
PostMaps(V) == UNION {[D -> V] : D \in {E \in SUBSET PostNames : Cardinality(E) \in {1, 2}}}

HttpControl ==
    /\ loop = "run"
    /\ requests < MaxRequests
    /\ requests' = requests + 1
    /\ \E postmap \in PostMaps(PostControls), ord \in Perms(TaskNames) :
         \E r \in {http_control(St("worker"), postmap, ord)} : Commit(r)
    /\ UNCHANGED <<config_file, roles_file, now, allow_control, listed, edits, loop, fw, mloop>>

HttpCount ==
    /\ loop = "run"
    /\ requests < MaxRequests
    /\ requests' = requests + 1
    /\ \E postmap \in PostMaps(PostCounts), ord \in Perms(TaskNames) :
         \E pord \in Perms(DOMAIN postmap) :
            \E r \in {http_count(St("worker"), postmap, pord, ord)} : Commit(r)
    /\ UNCHANGED <<config_file, roles_file, now, allow_control, listed, edits, loop, fw, mloop>>

HttpOther ==
    /\ loop = "run"
    /\ requests < MaxRequests
    /\ requests' = requests + 1
    /\ \E path \in {"reload", "stop", "reset", "unknown"} :
         \E r \in {http_other(St("worker"), path)} : Commit(r)
    /\ UNCHANGED <<config_file, roles_file, now, allow_control, listed, edits, loop, fw, mloop>>

\* What a /manage/ request leaves on a listener created without control
\* privilege: each listener has its own management handler, which holds the
\* privilege of its listener.
Unprivileged ==
    LET s == [St("worker") EXCEPT !.allow_control = FALSE] IN
    {http_control(s, pm, ord) : pm \in PostMaps(PostControls), ord \in Perms(TaskNames)}
    \cup UNION {{http_count(s, pm, pord, ord) : pord \in Perms(DOMAIN pm),
                                                ord \in Perms(TaskNames)} :
                   pm \in PostMaps(PostCounts)}
    \cup {http_other(s, path) : path \in {"reload", "stop", "reset", "unknown"}}

\* A request arrives on a listener without control privilege.
HttpUnprivileged ==
    /\ loop = "run"
    /\ requests < MaxRequests
    /\ requests' = requests + 1
    /\ \E r \in Unprivileged : Commit(r)
    /\ UNCHANGED <<config_file, roles_file, now, allow_control, listed, edits, loop, fw, mloop>>

Signal ==
    /\ loop = "run"
    /\ \E sig \in {"TERM", "HUP"}, ord \in Perms(TaskNames) :
         \E r \in {_sig_handler(St("main"), sig, ord)} : Commit(r)
    /\ UNCHANGED <<config_file, roles_file, now, allow_control, requests, listed, edits, loop, fw, mloop>>

\* A child exits by itself or on a signal it was sent.
ChildExit ==
    /\ loop = "run"
    /\ \E p \in alive :
         /\ alive' = alive \ {p}
         /\ zombies' = zombies \cup {p}
    /\ UNCHANGED <<tasks, tasks_scoped, procs, file_event_map, exiting,
                   resetting, do_stop_all, reload_config, config_running,
                   role_set, config_file, roles_file, sigsent, now, loop,
                   worker_wrote, allow_control, response, requests, listed, edits,
                   exit_asked, fw, mloop>>

Tick ==
    /\ loop = "run"
    /\ now + TickStep <= MaxTime
    /\ now' = now + TickStep
    /\ UNCHANGED <<tasks, tasks_scoped, procs, file_event_map, exiting,
                   resetting, do_stop_all, reload_config, config_running,
                   role_set, config_file, roles_file, alive, zombies, sigsent,
                   loop, worker_wrote, allow_control, response, requests, listed, edits,
                   exit_asked, fw, mloop>>

\* poll() returns after its timeout with no event: the clock has advanced
\* and the loop runs its idle pass.
PollTimeout ==
    /\ loop = "run"
    /\ now + TickStep <= MaxClock
    /\ now' = now + TickStep
    /\ \E ord \in Perms(TaskNames), rord \in Perms(zombies) :
         \E s1 \in {loop_top([St("main") EXCEPT !.now = now + TickStep], ord)} :
            IF loop_breaks(s1)
            THEN /\ Commit(s1)
                 /\ loop' = IF s1.resetting # None THEN "reset" ELSE "exit"
            ELSE \E s2 \in {idle(s1, ord, rord)} : Finish(s2, ord)
    /\ UNCHANGED <<config_file, roles_file, allow_control, requests, listed, edits, fw, mloop>>

\* The locals of legion.manage() at its entry: evlist is not bound before the
\* first poll() returns, last_idle_run is the time of the entry.  eintr says
\* that the last poll() was interrupted; did is the branch the last pass
\* took ("idle", "events", "raise"; "" before the first pass).
NewLoop == [evlist |-> "unbound", last_idle_run |-> 1, eintr |-> FALSE, did |-> ""]

NotListed == [called |-> FALSE, ok |-> FALSE, order |-> <<>>]

InitLegion(u, rf) ==
    /\ tasks = <<>>
    /\ tasks_scoped = {}
    /\ procs = <<>>
    /\ file_event_map = {}
    /\ exiting = None
    /\ resetting = None
    /\ do_stop_all = FALSE
    /\ reload_config = None
    /\ config_running = None
    /\ role_set = NoRoleSet
    /\ config_file = Head(u)
    /\ roles_file = rf
    /\ alive = {}
    /\ zombies = {}
    /\ sigsent = [p \in Pids |-> ""]
    /\ now = 1
    /\ loop = "init"
    /\ worker_wrote = {}
    /\ allow_control = TRUE
    /\ response = 0
    /\ requests = 0
    /\ listed = NotListed
    /\ edits = Tail(u)
    /\ exit_asked = None

\* The legion creates its watcher at construction; no path is added.
InitAt(u, rf) == InitLegion(u, rf) /\ fw = NewWatch(wf_inotifyx) /\ mloop = NewLoop

\* No roles file is given: role filtering is off.
InitWith(u) == InitAt(u, NoRoleSet)

\* The edit scripts of the config file: a task is dropped and named again, a
\* running once task gets a lower count, a control becomes event and the task
\* is dropped, a reload brings a requires cycle, a task has a file_change
\* event, a task is switched off and then dropped.
Scripts == {<<2, 3, 2>>, <<6, 1>>, <<2, 4, 3>>, <<2, 5>>, <<2, 7>>, <<2, 8, 3>>}

Init == \E u \in Scripts : InitWith(u)

Next ==
    \/ Startup
    \/ IdlePass
    \/ ChildEvent
    \/ ConfigFileChange
    \/ FileEvent
    \/ Signal
    \/ ChildExit
    \/ Tick

Spec == Init /\ [][Next]_vars

\* ------------------------------------------- the supervisor with HTTP control
\* One document, never rewritten; requests arrive on the management listener
\* within one tick of the clock, and no signal is sent to the supervisor.
InitHttp == InitWith(<<2>>)

NextHttp ==
    \/ Startup
    \/ IdlePass
    \/ ChildEvent
    \/ HttpControl
    \/ HttpCount
    \/ HttpOther
    \/ ChildExit

SpecHttp == InitHttp /\ [][NextHttp]_vars

\* Two listeners, one of them created without control privilege; the other
\* takes controls, reloads and exits.
NextListeners ==
    \/ Startup
    \/ IdlePass
    \/ ChildEvent
    \/ HttpControl
    \/ HttpOther
    \/ HttpUnprivileged
    \/ ChildExit

SpecListeners == InitHttp /\ [][NextListeners]_vars

\* ------------------------------------------------- startup of a once chain
\* Document 1 (B requires the once task A), never rewritten.
InitStartup == InitWith(<<1>>)

NextStartup ==
    \/ Startup
    \/ IdlePass
    \/ ChildEvent
    \/ Signal
    \/ ChildExit
    \/ Tick

SpecStartup == InitStartup /\ [][NextStartup]_vars

\* ------------------------------------------------------ roles file changes
\* Document 17 (A has role r1, B has role r2), never rewritten, with a roles
\* file that holds r1 at first and is rewritten at any time.
InitRoles == InitAt(<<17>>, {"r1"})

NextRoles ==
    \/ Startup
    \/ IdlePass
    \/ ChildEvent
    \/ RolesFileChange
    \/ ChildExit
    \/ Tick

SpecRoles == InitRoles /\ [][NextRoles]_vars

\* The same with counts changed through the management listener, at one
\* time of the clock and with no exit of a process.
NextRolesHttp ==
    \/ Startup
    \/ IdlePass
    \/ RolesFileChange
    \/ HttpCount

SpecRolesHttp == InitRoles /\ [][NextRolesHttp]_vars

\* ------------------------------------------- controls, onexit and bad configs
\* The runs of the claims about once tasks, onexit actions, the suspend
\* control, starts that fail and reloads that fail: B restarts the once task
\* A on its exit; B names a wait task, or an event task, in its onexit; B is
\* suspended by a reload, alone or while A becomes a once task; A has no
\* start command, or a bad user; the config file is rewritten with a
\* document that does not load, or with one whose tasks key is empty.
ControlScripts ==
    {<<9>>, <<10>>, <<11>>, <<2, 12>>, <<2, 16>>, <<13>>, <<14>>, <<2, 0>>, <<2, 15>>}

InitControls == \E u \in ControlScripts : InitWith(u)

NextControls ==
    \/ Startup
    \/ IdlePass
    \/ ChildEvent
    \/ ConfigFileChange
    \/ Signal
    \/ ChildExit
    \/ Tick

SpecControls == InitControls /\ [][NextControls]_vars

\* ----------------------------------------------------- the watcher at work
\* The caller adds and removes paths of either kind, with and without the
\* commit, while files are created, written, changed in mode and deleted (a
\* rename away from a path is a delete of the path, a rename onto it a delete
\* and a create).
MaxFsOps == 2       \* changes made to the files in one run

legion_vars == <<tasks, tasks_scoped, procs, file_event_map, exiting, resetting,
                 do_stop_all, reload_config, config_running, role_set,
                 config_file, roles_file, alive, zombies, sigsent, now, loop,
                 worker_wrote, allow_control, response, requests, listed, edits,
                 exit_asked, mloop>>

\* The kernel queues an event for every descriptor attached to the file at
\* the path; polling mode has no kernel queue.
notify(w, path, kind) ==
    IF w.mode = wf_polling THEN w
    ELSE [w EXCEPT !.evq = @ \cup
            {<<fd, kind>> : fd \in {f \in DOMAIN w.kw :
                                      w.kw[f] = <<path, w.file[path].ino>>}}]

FsCreate ==
    /\ fw.nops < MaxFsOps
    /\ \E path \in Paths :
         /\ ~path_exists(fw, path)
         /\ fw' = [fw EXCEPT !.file[path] = [ino |-> fw.nops + 2, mt |-> fw.nops + 2],
                             !.nops = @ + 1]
    /\ UNCHANGED legion_vars

FsWrite ==
    /\ fw.nops < MaxFsOps
    /\ \E path \in Paths :
         /\ path_exists(fw, path)
         /\ fw' = [notify(fw, path, "write") EXCEPT !.file[path].mt = fw.nops + 2,
                                                    !.nops = @ + 1]
    /\ UNCHANGED legion_vars

FsChmod ==
    /\ fw.nops < MaxFsOps
    /\ \E path \in Paths :
         /\ path_exists(fw, path)
         /\ fw' = [notify(fw, path, "attrib") EXCEPT !.file[path].mt = fw.nops + 2,
                                                     !.nops = @ + 1]
    /\ UNCHANGED legion_vars

FsDelete ==
    /\ fw.nops < MaxFsOps
    /\ \E path \in Paths :
         /\ path_exists(fw, path)
         /\ fw' = [notify(fw, path, "gone") EXCEPT
                        !.file[path] = [ino |-> None, mt |-> None],
                        !.nops = @ + 1]
    /\ UNCHANGED legion_vars

\* What a call leaves behind: the return value of _add_file() is dropped.
Returned(w) == [w EXCEPT !.res = ""]

WatchAdd ==
    /\ \E path \in Paths, missing \in BOOLEAN, ord \in Perms(Paths) :
         LET r == add(fw, path, missing, TRUE, ord) IN
         fw' = Returned([r EXCEPT !.want = IF r.exc THEN @ ELSE @ \cup {path}])
    /\ UNCHANGED legion_vars

WatchRemove ==
    /\ \E path \in Paths, ord \in Perms(Paths) :
         LET r == remove(fw, path, TRUE, ord) IN
         fw' = Returned([r EXCEPT !.want = IF r.exc THEN @ ELSE @ \ {path}])
    /\ UNCHANGED legion_vars

\* add() and remove() with commit=False, and the commit() that follows.
WatchAddDeferred ==
    /\ \E path \in Paths, missing \in BOOLEAN, ord \in Perms(Paths) :
         LET r == add(fw, path, missing, FALSE, ord) IN
         fw' = Returned([r EXCEPT !.want = IF r.exc THEN @ ELSE @ \cup {path}])
    /\ UNCHANGED legion_vars

WatchRemoveDeferred ==
    /\ \E path \in Paths, ord \in Perms(Paths) :
         LET r == remove(fw, path, FALSE, ord) IN
         fw' = Returned([r EXCEPT !.want = IF r.exc THEN @ ELSE @ \ {path}])
    /\ UNCHANGED legion_vars

WatchCommit ==
    /\ \E ord \in Perms(Paths) :
         fw' = Returned(commit([fw EXCEPT !.exc = FALSE], ord))
    /\ UNCHANGED legion_vars

WatchGet ==
    /\ \E ord \in Perms(Paths), ford \in Perms(Fds) :
         fw' = Returned(get(fw, ord, ford))
    /\ UNCHANGED legion_vars

WatchScan ==
    /\ \E ord \in Perms(Paths), ford \in Perms(Fds) :
         fw' = Returned(scan(fw, ord, ford))
    /\ UNCHANGED legion_vars

\* A new watcher of any mode, over files of which any may exist.
InitWatch ==
    /\ InitLegion(<<2>>, NoRoleSet)
    /\ mloop = NewLoop
    /\ \E m \in Modes, there \in SUBSET Paths :
         fw = [NewWatch(m) EXCEPT !.file =
                 [p \in Paths |-> IF p \in there THEN [ino |-> 1, mt |-> 1]
                                  ELSE [ino |-> None, mt |-> None]]]

\* Only add(), remove() and commit() are called, and files come and go.
NextWatchCalls ==
    \/ WatchAdd
    \/ WatchRemove
    \/ WatchAddDeferred
    \/ WatchRemoveDeferred
    \/ WatchCommit
    \/ FsCreate
    \/ FsDelete

SpecWatchCalls == InitWatch /\ [][NextWatchCalls]_vars

\* The caller commits with every add() and remove(), and calls get() and
\* scan().
NextWatch ==
    \/ WatchAdd
    \/ WatchRemove
    \/ WatchGet
    \/ WatchScan
    \/ FsCreate
    \/ FsWrite
    \/ FsChmod
    \/ FsDelete

SpecWatch == InitWatch /\ [][NextWatch]_vars

\* ------------------------------------------------------ a clock that is set
\* time.time() is the wall clock: an operator or ntpd sets it back by any
\* amount between two passes of the loop.
ClockSetBack ==
    /\ loop = "run"
    /\ \E d \in 1..now : now' = now - d
    /\ UNCHANGED <<tasks, tasks_scoped, procs, file_event_map, exiting,
                   resetting, do_stop_all, reload_config, config_running,
                   role_set, config_file, roles_file, alive, zombies, sigsent,
                   loop, worker_wrote, allow_control, response, requests, listed, edits,
                   exit_asked, fw, mloop>>

NextClock ==
    \/ Startup
    \/ IdlePass
    \/ ChildEvent
    \/ ChildExit
    \/ Tick
    \/ ClockSetBack

SpecClock == InitHttp /\ [][NextClock]_vars

\* ------------------------------------------------------- the exit of the legion
\* Signals arrive at any time and the clock runs past sigterm_limit; time
\* passes only in poll(), so the idle pass runs at every step of the clock.
\* The config is document 2, which one run rewrites to make A an event task.
InitExit == \E u \in {<<2>>, <<2, 4>>} : InitWith(u)

NextExit ==
    \/ Startup
    \/ IdlePass
    \/ ChildEvent
    \/ Signal
    \/ ConfigFileChange
    \/ ChildExit
    \/ PollTimeout

SpecExit == InitExit /\ [][NextExit]_vars

\* ---------------------------------------------------- task_list() by itself
\* Any three tasks: each is on or off, requires any of the others, and C may
\* be bound to a role; the legion has no roles file or runs under a role.
TLNames == {"A", "B", "C"}

TLConf(n, control, requires, roles) == Conf(control, 1, requires, roles, 0, {}, {}, 1)

InitTaskList ==
    /\ \E control \in [TLNames -> {"wait", "off"}],
          requires \in [TLNames -> SUBSET TLNames],
          roles \in {{}, {"r1"}} :
         /\ \A n \in TLNames : n \notin requires[n]
         /\ tasks = [n \in TLNames |->
                [NewTask EXCEPT !.config_pending =
                    TLConf(n, control[n], requires[n],
                           IF n = "C" THEN roles ELSE {})]]
    /\ role_set \in {NoRoleSet, {"r2"}}
    /\ roles_file = role_set
    /\ tasks_scoped = {}
    /\ procs = <<>>
    /\ file_event_map = {}
    /\ exiting = None
    /\ resetting = None
    /\ do_stop_all = FALSE
    /\ reload_config = None
    /\ config_running = None
    /\ config_file = BadDoc
    /\ alive = {}
    /\ zombies = {}
    /\ sigsent = [p \in Pids |-> ""]
    /\ now = 1
    /\ loop = "init"
    /\ worker_wrote = {}
    /\ allow_control = TRUE
    /\ response = 0
    /\ requests = 0
    /\ listed = NotListed
    /\ edits = <<>>
    /\ exit_asked = None
    /\ fw = NewWatch(wf_inotifyx)
    /\ mloop = NewLoop

TaskListCall ==
    /\ \E ord \in Perms(TLNames) :
         LET r == task_list(St("main"), TRUE, ord) IN
         listed' = [called |-> TRUE, ok |-> r.ok, order |-> r.order]
    /\ UNCHANGED <<tasks, tasks_scoped, procs, file_event_map, exiting,
                   resetting, do_stop_all, reload_config, config_running,
                   role_set, config_file, roles_file, alive, zombies, sigsent,
                   now, loop, worker_wrote, allow_control, response, requests, edits,
                   exit_asked, fw, mloop>>

NextTaskList == TaskListCall

SpecTaskList == InitTaskList /\ [][NextTaskList]_vars

\* ================================================================ properties
\* Requirement r is satisfied: it has stopped when its control is once, it has
\* started otherwise.
ReqSat(r) ==
    /\ r \in DOMAIN tasks
    /\ IF tasks[r].config_running.control = "once"
       THEN tasks[r].stopped # None
       ELSE tasks[r].started # None

\* The slots (task, index) that hold pid p.
SlotsOf(p) ==
    {x \in UNION {{<<t, i>> : i \in DOMAIN tasks[t].proc_state} : t \in DOMAIN tasks} :
        tasks[x[1]].proc_state[x[2]].pid = p}

\* A stop escalation is in progress for the task: it was sent its stop signal
\* and SIGKILL is scheduled, for the whole task or for a slot being shrunk.
Escalating(T) ==
    \/ T.terminated # None
    \/ \E i \in DOMAIN T.proc_state :
          T.proc_state[i].pid # None /\ T.proc_state[i].next_sig # None

\* The pending requires relation has a cycle.
Requires(t) == tasks[t].config_pending.requires

RECURSIVE ReachFrom(_, _)
ReachFrom(S, k) ==
    IF k = 0 THEN S
    ELSE ReachFrom(S \cup UNION {Requires(x) : x \in S \cap DOMAIN tasks}, k - 1)

PendingCycle ==
    \E t \in DOMAIN tasks : t \in ReachFrom(Requires(t), Cardinality(DOMAIN tasks))

\* ------------------------------------------------------------------------ C1
\* C1 as stated: in every reachable state, a task with a run control whose
\* started is set has every task of its requires satisfied (started, or
\* stopped for a once requirement).
C1_StartedImpliesRequires ==
    \A t \in DOMAIN tasks :
        (/\ tasks[t].has_running
         /\ tasks[t].config_running.control \in run_controls
         /\ tasks[t].started # None)
        => \A r \in tasks[t].config_running.requires : ReqSat(r)

\* C1 amended: a task begins its start (starting passes from unset to set,
\* which marks it started when it has no start_delay) only in a step that
\* leaves every task of its requires satisfied.  Nothing keeps the requirement
\* satisfied afterwards: a requirement that exits later leaves the task started.
C1_StartChecksRequires ==
    [][\A t \in DOMAIN tasks' :
          (/\ tasks'[t].starting # None
           /\ (t \notin DOMAIN tasks \/ tasks[t].starting = None))
          => \A r \in tasks'[t].config_running.requires : ReqSat(r)']_vars

\* B, which requires A, is started and runs while A is satisfied.
C1_Witness ==
    /\ "B" \in DOMAIN tasks
    /\ tasks["B"].config_running.requires = {"A"}
    /\ tasks["B"].started # None
    /\ get_pids(tasks["B"]) # {}
    /\ ReqSat("A")

\* ------------------------------------------------------------------------ C2
\* C2: in every reachable state, the slots of a task that hold a pid are at
\* most the count of its running config, unless a stop escalation is in
\* progress for the task.
C2_CountBound ==
    \A t \in DOMAIN tasks :
        tasks[t].has_running =>
            \/ Cardinality(get_pids(tasks[t])) <= tasks[t].config_running.count
            \/ Escalating(tasks[t])

\* ------------------------------------------------------------------------ C3
\* C3: while the loop runs, every live child has an entry in the pid map, and
\* every live process of a task is in exactly one slot.  (As stated the claim
\* also puts the children of event commands in a slot; this is the part of it
\* that is about task processes.)
C3_LivePidsTracked ==
    loop = "run" =>
        \A p \in alive :
            /\ p \in DOMAIN procs
            /\ procs[p].handler = "proc_exit" => Cardinality(SlotsOf(p)) = 1

\* ------------------------------------------------------------------------ C4
\* C4: whenever stopped is set, every slot of the task has pid null.
C4_StoppedHasNoPid ==
    \A t \in DOMAIN tasks : tasks[t].stopped # None => get_pids(tasks[t]) = {}

\* ------------------------------------------------------------------------ C5
\* C5: a task with dnr and stopped both set does not persist in the legion: an
\* idle pass of a supervisor that is not exiting, begun with such a task,
\* ends without it.
C5_DroppedIsDeleted ==
    [][\A t \in DOMAIN tasks :
          (/\ tasks[t].dnr # None
           /\ tasks[t].stopped # None
           /\ IdlePass
           /\ exiting' = None
           /\ loop' = "run")
          => \/ t \notin DOMAIN tasks'
             \/ tasks'[t].dnr = None
             \/ tasks'[t].stopped = None]_vars

\* ------------------------------------------------------------------------ C6
\* C6: a handler on an HTTP worker thread never adds to or removes from the
\* pid map and never forks a child.
C6_WorkerLeavesPidMap == worker_wrote \cap {"procs", "fork"} = {}

\* ------------------------------------------------------------------------ C7
\* C7: no HTTP worker thread writes the running config of the legion or of a
\* task, or the running roles set.
C7_WorkerLeavesRunningConfig == worker_wrote \cap {"config_running", "role_set"} = {}

\* ------------------------------------------------------------------------ C8
Scoped == {t \in DOMAIN tasks : participant(St("main"), t)}

\* order holds every in-scope task once, each after all of its requirements.
SortedOnce(order) ==
    /\ Range(order) = Scoped
    /\ Len(order) = Cardinality(Scoped)
    /\ \A i \in DOMAIN order : \A r \in Requires(order[i]) :
          \E j \in DOMAIN order : j < i /\ order[j] = r

C9_CycleIsFatal == loop = "run" => ~PendingCycle

\* ----------------------------------------------------------------------- C10
OnceChain ==
    /\ {"A", "B"} \subseteq DOMAIN tasks
    /\ tasks["B"].has_running
    /\ "A" \in tasks["B"].config_running.requires
    /\ tasks["A"].config_running.control = "once"

\* What an idle pass of the loop, begun in this state, leaves of task t.
AfterIdlePass(t) ==
    {idle(loop_top(St("main"), ord), ord, rord).tasks[t] :
        ord \in Perms(TaskNames), rord \in Perms(zombies)}

\* C10: B requires the once task A.  From startup B has no process in any
\* state where A.stopped is unset; and once A.stopped is set, the next idle
\* pass of a supervisor that is not exiting marks B started, with all its
\* processes when it is B's first start.
C10_OnceThenStart ==
    OnceChain =>
        /\ tasks["A"].stopped = None => get_pids(tasks["B"]) = {}
        /\ (/\ tasks["A"].stopped # None
            /\ tasks["B"].started = None
            /\ loop = "run"
            /\ exiting = None)
           => \A T \in AfterIdlePass("B") :
                 /\ T.started # None
                 /\ tasks["B"].proc_state = <<>> =>
                       Cardinality(get_pids(T)) = T.config_running.count

\* A has stopped and B runs all its processes.
C10_Witness ==
    /\ OnceChain
    /\ tasks["A"].stopped # None
    /\ tasks["B"].started # None
    /\ Cardinality(get_pids(tasks["B"]) \cap alive) = tasks["B"].config_running.count

\* ----------------------------------------------------------------------- C11
\* C11: the loop is not running any more once more than sigterm_limit has
\* passed since an exit was first asked for, whether or not a process is
\* alive.  (The loop tests the limit at the head of every iteration and the
\* clock advances only in poll(), so a loop that goes on past the limit shows
\* as a state where it runs after the limit.)
C11_ExitWithinLimit ==
    (loop = "run" /\ exit_asked # None) => now <= exit_asked + sigterm_limit

\* What the loop keeps is the limit counted from the latest request.
C11_LatestRequestLimit ==
    (loop = "run" /\ exiting # None) => now <= exiting + sigterm_limit

\* The loop has ended on the limit with a process of a scoped task alive.
C11_Witness ==
    /\ loop \in {"exit", "reset"}
    /\ still_running(St("main")) > 0

\* ----------------------------------------------------------------------- C12
\* The states an iteration of the loop that runs its idle pass can leave.
AfterIdle ==
    {idle(loop_top(St("main"), ord), ord, rord) :
        ord \in {o \in Perms(TaskNames) : ~loop_breaks(loop_top(St("main"), o))},
        rord \in Perms(zombies)}

\* The stop sequence of task t began more than sigkill_escalation ago.
StopOverdue(t) ==
    /\ tasks[t].terminated # None
    /\ tasks[t].terminated + sigkill_escalation < now

\* C12: whatever made a task stop, once sigkill_escalation has passed since
\* its stop sequence began, the idle pass of the loop leaves none of its
\* processes alive: each was sent SIGKILL.
C12_StopEscalates ==
    loop = "run" =>
        \A t \in DOMAIN tasks : StopOverdue(t) =>
            \A r \in AfterIdle : get_pids(tasks[t]) \cap alive \cap r.alive = {}

\* The same for the tasks that are in scope.
C12_ScopedStopEscalates ==
    loop = "run" =>
        \A t \in tasks_scoped \cap DOMAIN tasks : StopOverdue(t) =>
            \A r \in AfterIdle : get_pids(tasks[t]) \cap alive \cap r.alive = {}

\* A task was sent SIGTERM, ignored it and was sent SIGKILL by the escalation.
C12_Witness ==
    \E t \in DOMAIN tasks :
        /\ tasks[t].killed # None
        /\ \E p \in get_pids(tasks[t]) : p \in zombies /\ sigsent[p] = "KILL"

\* ----------------------------------------------------------------------- C13
\* The slots of task t beyond its running count that hold a live process,
\* when t has more live processes than its count.
SurplusSlots(t) ==
    {i \in DOMAIN tasks[t].proc_state :
        /\ Cardinality(get_pids(tasks[t]) \cap alive) > tasks[t].config_running.count
        /\ i > tasks[t].config_running.count
        /\ tasks[t].proc_state[i].pid \in alive}

\* The signal sent to the process of slot i is due for its escalation.
SlotOverdue(t, i) ==
    \/ StopOverdue(t)
    \/ /\ tasks[t].proc_state[i].next_sig # None
       /\ tasks[t].proc_state[i].next_sig < now

\* The idle pass leaves the process of every surplus slot of t signalled, and
\* does not leave it alive once the escalation is due.
SurplusSignalled(t) ==
    \A i \in SurplusSlots(t) :
        LET p == tasks[t].proc_state[i].pid IN
        \A r \in AfterIdle :
            /\ p \in r.alive => r.sigsent[p] \in {"TERM", "KILL"}
            /\ SlotOverdue(t, i) => p \notin r.alive

\* C13: when the count of a task is below its running processes, the idle pass
\* of the loop leaves the process of each surplus slot sent SIGTERM, and sent
\* SIGKILL once the escalation interval has passed.
C13_SurplusIsSignalled ==
    loop = "run" =>
        \A t \in tasks_scoped \cap DOMAIN tasks :
            tasks[t].has_running => SurplusSignalled(t)

\* The same for the tasks whose control is not once or event.
C13_SurplusOfWaitIsSignalled ==
    loop = "run" =>
        \A t \in tasks_scoped \cap DOMAIN tasks :
            (/\ tasks[t].has_running
             /\ tasks[t].config_running.control \notin once_controls)
            => SurplusSignalled(t)

\* A surplus process was sent SIGTERM.
C13_Witness ==
    \E t \in tasks_scoped \cap DOMAIN tasks :
        /\ tasks[t].has_running
        /\ \E i \in SurplusSlots(t) : sigsent[tasks[t].proc_state[i].pid] = "TERM"

\* ----------------------------------------------------------------------- C14
\* In this step a process is forked for slot i of task t, which held none or
\* one that had exited.  (A task marked dnr is deleted when it has stopped; a
\* task of the same name that a later reload creates is another task.)
ForkedForSlot(t, i) ==
    /\ t \in DOMAIN tasks /\ t \in DOMAIN tasks'
    /\ tasks[t].dnr = None
    /\ i \in DOMAIN tasks[t].proc_state /\ i \in DOMAIN tasks'[t].proc_state
    /\ tasks[t].proc_state[i].pid \notin alive
    /\ tasks'[t].proc_state[i].pid \in alive'

\* C14: a slot that was started before gets its next process no sooner than
\* reexec_delay after the start it recorded.
C14_RestartDelay ==
    [][\A t \in TaskNames : \A i \in 1..2 :
          (ForkedForSlot(t, i) /\ tasks[t].proc_state[i].started # None)
          => now' - tasks[t].proc_state[i].started >= reexec_delay]_vars

\* A slot holds a live process that is not its first: it was started after the
\* first instant of the run, which is when every first process is forked.
C14_Witness ==
    \E t \in DOMAIN tasks : \E i \in DOMAIN tasks[t].proc_state :
        /\ tasks[t].dnr = None
        /\ tasks[t].proc_state[i].pid \in alive
        /\ tasks[t].proc_state[i].started >= 1 + reexec_delay
        /\ config_file = 2 /\ config_running = 2
        /\ exiting = None

\* ----------------------------------------------------------------------- C15
\* All the processes of the once task t have exited: it ran and is stopped.
OnceDone(t) ==
    /\ t \in DOMAIN tasks
    /\ tasks[t].has_running
    /\ tasks[t].config_running.control = "once"
    /\ tasks[t].stopped # None
    /\ tasks[t].proc_state # <<>>
    /\ get_pids(tasks[t]) = {}

\* The last process of a task whose onexit names t has exited and its exit is
\* about to be handled.
OnexitStartDue(t) ==
    \E u \in DOMAIN tasks :
        /\ t \in tasks[u].config_running.onexit
        /\ get_pids(tasks[u]) # {}
        /\ get_pids(tasks[u]) \subseteq zombies

\* C15: a once task whose processes have all exited stays stopped, with no
\* process, in every step where it keeps its once control, except the steps
\* that handle the exit of a task whose onexit start action names it.
C15_OnceStaysStopped ==
    [][\A t \in TaskNames :
          (/\ OnceDone(t)
           /\ t \in DOMAIN tasks'
           /\ tasks'[t].config_running.control = "once"
           /\ ~OnexitStartDue(t))
          => /\ tasks'[t].stopped # None
             /\ get_pids(tasks'[t]) = {}]_vars

\* The once task A ran, exited, and is still stopped after the clock advanced.
C15_Witness ==
    /\ OnceDone("A")
    /\ now > 1
    /\ loop = "run"
    /\ exiting = None

\* ----------------------------------------------------------------------- C16
\* What the reap of the exited children leaves, for every order of the waits.
AfterReap ==
    {_reap(St("main"), ord, rord, 1) : ord \in Perms(TaskNames), rord \in Perms(zombies)}

\* Task n is the target of an onexit start action that is due, and none of
\* its own processes has exited.
OnexitTarget(n) ==
    /\ n \in DOMAIN tasks
    /\ tasks[n].has_running
    /\ OnexitStartDue(n)
    /\ get_pids(tasks[n]) \cap zombies = {}

Suspended(t) ==
    /\ t \in tasks_scoped /\ t \in DOMAIN tasks
    /\ tasks[t].has_running
    /\ tasks[t].config_running.control = "suspend"
    /\ tasks[t].stopping = None
    /\ loop = "run"
    /\ exiting = None

\* The idle pass drains a suspended task: it leaves every live process of the
\* task signalled, and none alive once the escalation of its signal is due;
\* and it leaves a task with no process left at rest, suspended recorded.
SuspendDrains(t) ==
    \A r \in AfterIdle :
        /\ \A i \in DOMAIN tasks[t].proc_state :
              LET p == tasks[t].proc_state[i].pid IN
              p \in alive =>
                 /\ p \in r.alive => r.sigsent[p] \in {"TERM", "KILL"}
                 /\ SlotOverdue(t, i) => p \notin r.alive
        /\ get_pids(tasks[t]) \subseteq zombies =>
              /\ r.tasks[t].suspended # None
              /\ get_pids(r.tasks[t]) = {}

\* No step gives a process to a task whose control is and stays suspend.
NoStartWhileSuspended ==
    \A t \in TaskNames :
        (/\ t \in DOMAIN tasks /\ t \in DOMAIN tasks'
         /\ tasks[t].has_running
         /\ tasks[t].config_running.control = "suspend"
         /\ tasks'[t].config_running.control = "suspend")
        => get_pids(tasks'[t]) \subseteq get_pids(tasks[t])

\* Every task that t requires is started (completed, for a once task) and
\* has no exit waiting to be reaped.
RequiresMet(t) ==
    \A q \in tasks[t].config_running.requires :
        /\ ReqSat(q)
        /\ get_pids(tasks[q]) \subseteq alive

\* C17: a task whose control is suspend is drained by the idle pass, gets no
\* new process while the control stays suspend, and is at rest with suspended
\* recorded once it has no process.
C17_SuspendDrains ==
    /\ [](\A t \in TaskNames : Suspended(t) => SuspendDrains(t))
    /\ [][NoStartWhileSuspended]_vars

\* The same for the tasks whose requirements are met.
C17_SuspendDrainsWhenRequiresMet ==
    /\ [](\A t \in TaskNames : (Suspended(t) /\ RequiresMet(t)) => SuspendDrains(t))
    /\ [][NoStartWhileSuspended]_vars

\* B is suspended and waits on the once task A: its process is alive and was
\* never signalled, though more than sigkill_escalation has passed since the
\* control became suspend.
C17_Witness ==
    /\ Suspended("B")
    /\ config_running = 16
    /\ \E p \in get_pids(tasks["B"]) \cap alive : sigsent[p] = ""
    /\ now > 1 + sigkill_escalation

\* B was running when its control became suspend, its process was signalled
\* and has gone, and B is at rest.
C17_AtRestWitness ==
    /\ Suspended("B")
    /\ tasks["B"].suspended # None
    /\ tasks["B"].proc_state # <<>>
    /\ tasks["B"].proc_state[1].started # None
    /\ get_pids(tasks["B"]) = {}

\* ----------------------------------------------------------------------- C18
\* The exited children that the pid map knows.
ReapedKnown == zombies \cap DOMAIN procs

\* The event target of pid p was handed the exit: a proc_exit target has
\* cleared the pid from the slots of its task.
Handled(r, p) ==
    procs[p].handler = "proc_exit" =>
        \A t \in DOMAIN r.tasks : p \notin get_pids(r.tasks[t])

StartFails(t) ==
    /\ t \in DOMAIN tasks
    /\ tasks[t].has_running
    /\ \/ ~tasks[t].config_running.startcmd
       \/ tasks[t].config_running.badid

\* C19: a task whose start fails before the fork is not started: it is not
\* marked started or completed and has no process.
C19_FailedStartNotStarted ==
    \A t \in TaskNames : StartFails(t) =>
        /\ tasks[t].started = None
        /\ tasks[t].stopped = None
        /\ get_pids(tasks[t]) = {}

\* The part that holds: the task has no process.
C19_FailedStartHasNoProcess ==
    \A t \in TaskNames : StartFails(t) => get_pids(tasks[t]) = {}

\* The once task A has no start command, is recorded as completed, and B,
\* which requires A, runs.
C19_Witness ==
    /\ StartFails("A")
    /\ tasks["A"].config_running.control = "once"
    /\ tasks["A"].stopped # None
    /\ get_pids(tasks["B"]) \cap alive # {}

\* The wait task A names a bad user and is marked started with no process,
\* and B, which requires A, runs.
C19_BadUserWitness ==
    /\ StartFails("A")
    /\ tasks["A"].config_running.badid
    /\ tasks["A"].started # None
    /\ get_pids(tasks["B"]) \cap alive # {}

\* ----------------------------------------------------------------------- C20
\* A reload is due and the config file holds a document that fails to load.
ReloadFails ==
    /\ loop = "run"
    /\ reload_config # None
    /\ config_file \in {BadDoc, NullTasksDoc}

\* What the reload of the idle pass leaves.
AfterReload == {reload(St("main"), ord) : ord \in Perms(TaskNames)}

\* The reload leaves the tasks as they were: the same tasks in the same
\* scope, with their configs, their state and their processes.
TasksKept(r) ==
    /\ r.tasks = tasks
    /\ r.tasks_scoped = tasks_scoped
    /\ r.procs = procs
    /\ r.alive = alive
    /\ r.sigsent = sigsent

\* C20: a reload that fails leaves the previous config active: the running
\* config of the legion, the set of tasks, and the config and the processes
\* of every task are unchanged.
C20_FailedReloadKeepsConfig ==
    ReloadFails => \A r \in AfterReload :
        /\ r.config_running = config_running
        /\ TasksKept(r)

\* The part that holds: the tasks are unchanged.
C20_FailedReloadKeepsTasks ==
    ReloadFails => \A r \in AfterReload : TasksKept(r)

\* The running config of the legion is the document with the empty tasks
\* key, while the tasks run with the configs of the document before it.
C20_Witness ==
    /\ loop = "run"
    /\ config_running = NullTasksDoc
    /\ \E t \in DOMAIN tasks :
          /\ tasks[t].config_running = Doc(2)[t]
          /\ get_pids(tasks[t]) \cap alive # {}

\* A reload of a document that does not load was tried and dropped, and the
\* running config is the one before it.
C20_UnloadableWitness ==
    /\ loop = "run"
    /\ config_file = BadDoc
    /\ reload_config = None
    /\ config_running = 2

\* ----------------------------------------------------------------------- C21
\* The pending config of task t has been applied: it is the running config,
\* and the task is in scope and is not being stopped.
Applied(t) ==
    /\ t \in tasks_scoped /\ t \in DOMAIN tasks
    /\ tasks[t].has_running
    /\ tasks[t].config_running = tasks[t].config_pending
    /\ tasks[t].stopping = None
    /\ tasks[t].stopped = None

\* What a reload of the same document leaves of task t: set_config() with a
\* copy of the same config, then apply().
AppliedAgain(t) == apply(set_config(St("main"), t, tasks[t].config_pending), t)

\* The task has nothing to do on a manage tick: all its processes run, none
\* beyond its count, its time limit has not passed and it is not suspended.
Settled(t) ==
    /\ Cardinality(get_pids(tasks[t])) = tasks[t].config_running.count
    /\ get_pids(tasks[t]) \subseteq alive
    /\ tasks[t].config_running.control \in {"wait", "once"}
    /\ ~(tasks[t].limit # None /\ now > tasks[t].limit)

RolesUnchanged ==
    /\ loop = "run"
    /\ reload_config # None
    /\ roles_file = role_set
    /\ config_file = config_running

\* The idle pass as it would be with no reload due.
AfterIdleNoReload(ord, rord) ==
    idle(loop_top([St("main") EXCEPT !.reload_config = None], ord), ord, rord)

\* Every process the idle pass would leave alive without the reload is left
\* alive by the pass with the reload, in the same slot and with the same
\* signals sent.
ReloadSparesProcesses ==
    \A ord \in Perms(TaskNames), rord \in Perms(zombies) :
        LET a == idle(loop_top(St("main"), ord), ord, rord)
            b == AfterIdleNoReload(ord, rord)
        IN  /\ b.alive \subseteq a.alive
            /\ \A p \in b.alive : a.sigsent[p] = b.sigsent[p]
            /\ \A t \in DOMAIN b.tasks :
                  /\ t \in DOMAIN a.tasks
                  /\ get_pids(b.tasks[t]) \subseteq get_pids(a.tasks[t])

\* The pending config of every task is the one the loaded document gives it:
\* no control or count was changed through the management listener since.
PendingAsLoaded ==
    \A t \in DOMAIN tasks : tasks[t].config_pending = Doc(config_running)[t]

\* C22: a reload for a roles file whose role set is unchanged stops and
\* restarts no process of any task.
C22_SameRolesNoRestart == RolesUnchanged => ReloadSparesProcesses

\* The same while every pending config is as loaded.
C22_SameRolesNoRestartAsLoaded ==
    (RolesUnchanged /\ PendingAsLoaded) => ReloadSparesProcesses

\* The roles file was rewritten with the roles it had while A runs two
\* processes, on a count of 2 set through the management listener.
C22_Witness ==
    /\ RolesUnchanged
    /\ role_set = {"r1"}
    /\ config_running = 17
    /\ tasks["A"].config_running.count = 2
    /\ Cardinality(get_pids(tasks["A"]) \cap alive) = 2

\* ----------------------------------------------------------------------- C23
\* The /manage/control requests in which every named task exists and every
\* value is a control.
ValidControlPosts ==
    {pm \in PostMaps(PostControls) :
        \A n \in DOMAIN pm : n \in DOMAIN tasks /\ pm[n] \in all_controls}

\* Some posted control differs from the running control of its task.
ControlDiffers(pm) ==
    \E n \in DOMAIN pm : tasks[n].config_running.control # pm[n]

\* What the request leaves, for every order of the task set.
AfterControl(pm) == {http_control(St("worker"), pm, ord) : ord \in Perms(TaskNames)}

\* The request changed nothing but the response.
NothingChanged(r) ==
    /\ r.tasks = tasks
    /\ r.tasks_scoped = tasks_scoped
    /\ r.procs = procs
    /\ r.alive = alive
    /\ r.sigsent = sigsent
    /\ r.exiting = exiting
    /\ r.resetting = resetting
    /\ r.do_stop_all = do_stop_all
    /\ r.reload_config = reload_config
    /\ r.config_running = config_running
    /\ r.role_set = role_set
    /\ r.file_event_map = file_event_map

\* C23: on a listener with control privilege, a valid /manage/control
\* request with a control that differs from the running one is answered 202
\* and leaves every named task with the posted control pending; one with no
\* difference is answered 200 and changes nothing.
C23_ControlRequest ==
    (loop = "run" /\ allow_control) =>
        \A pm \in ValidControlPosts : \A r \in AfterControl(pm) :
            IF ControlDiffers(pm)
            THEN /\ r.response = 202
                 /\ \A n \in DOMAIN pm :
                       /\ n \in DOMAIN r.tasks
                       /\ r.tasks[n].config_pending.control = pm[n]
            ELSE /\ r.response = 200
                 /\ NothingChanged(r)

\* The same, where a request whose controls leave no start order for the
\* tasks is answered 500.
C23_ControlRequestOrdered ==
    (loop = "run" /\ allow_control) =>
        \A pm \in ValidControlPosts : \A ord \in Perms(TaskNames) :
            LET r == http_control(St("worker"), pm, ord)
                written == control_write(St("worker"), pm, DOMAIN pm)
            IN  IF ControlDiffers(pm)
                THEN /\ r.response = IF task_list(written, TRUE, ord).ok THEN 202 ELSE 500
                     /\ \A n \in DOMAIN pm :
                           /\ n \in DOMAIN r.tasks
                           /\ r.tasks[n].config_pending.control = pm[n]
                ELSE /\ r.response = 200
                     /\ NothingChanged(r)

\* A request switched off A, which B requires, and was answered 500: A has
\* the control off, is in scope and runs.
C23_Witness ==
    /\ response = 500
    /\ tasks["A"].config_pending.control = "off"
    /\ "A" \in tasks_scoped
    /\ get_pids(tasks["A"]) \cap alive # {}
    /\ sigsent = [p \in Pids |-> ""]

\* ----------------------------------------------------------------------- C24
\* Entry n of a /manage/count request is bad: the task is unknown or the
\* count is not positive.  (A count that is no integer is skipped by the
\* scan in the same way.)
BadCount(pm, n) == n \notin DOMAIN tasks \/ pm[n] <= 0

\* What the request leaves, for every order of the posted names and of the
\* task set.
AfterCount(pm) ==
    {http_count(St("worker"), pm, pord, ord) :
        pord \in Perms(DOMAIN pm), ord \in Perms(TaskNames)}

\* The request left the count of every task as it was, pending and running.
CountsKept(r) ==
    /\ DOMAIN r.tasks = DOMAIN tasks
    /\ \A t \in DOMAIN tasks :
          /\ r.tasks[t].config_pending.count = tasks[t].config_pending.count
          /\ r.tasks[t].config_running.count = tasks[t].config_running.count

\* C24: a /manage/count request with a bad entry is answered with an error
\* and leaves the count of every task unchanged.
C24_BadCountRejected ==
    (loop = "run" /\ allow_control) =>
        \A pm \in PostMaps(PostCounts) :
            (\E n \in DOMAIN pm : BadCount(pm, n)) =>
                \A r \in AfterCount(pm) : r.response >= 400 /\ CountsKept(r)

\* The same for the requests in which every entry is bad.
C24_AllBadCountsRejected ==
    (loop = "run" /\ allow_control) =>
        \A pm \in PostMaps(PostCounts) :
            (\A n \in DOMAIN pm : BadCount(pm, n)) =>
                \A r \in AfterCount(pm) : r.response = 404 /\ NothingChanged(r)

\* ----------------------------------------------------------------------- C25
\* C25: on a listener without control privilege every /manage/ request is
\* answered 403 and changes no task, no pending config, no process and no
\* flag of the legion.
C25_UnprivilegedIsRefused ==
    loop = "run" =>
        \A r \in Unprivileged :
            /\ r.response = 403
            /\ NothingChanged(r)
            /\ r.worker_wrote = worker_wrote

\* A request was refused while both tasks run.
C25_Witness ==
    /\ response = 403
    /\ requests > 0
    /\ loop = "run"
    /\ \A t \in TaskNames : t \in DOMAIN tasks /\ get_pids(tasks[t]) \cap alive # {}

\* ----------------------------------------------------------------------- C29
\* Task T runs under a control that keeps its processes up, in a legion
\* that is not exiting.
RunsUnder(r, t) ==
    /\ t \in r.tasks_scoped /\ t \in DOMAIN r.tasks
    /\ r.tasks[t].has_running
    /\ r.tasks[t].config_running.control = "wait"
    /\ r.tasks[t].started # None
    /\ r.tasks[t].stopping = None
    /\ r.exiting = None

\* Slot i of task t is being drained: its process was signalled and the
\* escalation of the signal is scheduled.
Draining(r, t, i) ==
    LET proc == r.tasks[t].proc_state[i] IN
    /\ r.sigsent[proc.pid] \in {"TERM", "KILL"}
    /\ proc.next_sig # None

\* The slots of task t beyond its count that hold a live process.  (Slot i
\* of the model is instance i - 1 of the code.)
BeyondCount(r, t) ==
    {i \in DOMAIN r.tasks[t].proc_state :
        /\ i > r.tasks[t].config_running.count
        /\ r.tasks[t].proc_state[i].pid \in r.alive}

\* C29: the idle pass leaves every slot beyond the count of a running task
\* that holds a live process being drained.
C29_BeyondCountIsDrained ==
    loop = "run" =>
        \A r \in AfterIdle : \A t \in TaskNames :
            RunsUnder(r, t) => \A i \in BeyondCount(r, t) : Draining(r, t, i)

\* The same for the tasks with more live processes than their count.
C29_SurplusIsDrained ==
    loop = "run" =>
        \A r \in AfterIdle : \A t \in TaskNames :
            (/\ RunsUnder(r, t)
             /\ Cardinality(get_pids(r.tasks[t]) \cap r.alive) > r.tasks[t].config_running.count)
            => \A i \in BeyondCount(r, t) : Draining(r, t, i)

\* B runs with a count of 1 that a request answered 202 gave it, its first
\* slot is empty and its one process is in the second slot and was sent no
\* signal.
C29_Witness ==
    /\ RunsUnder(St("main"), "B")
    /\ response = 202
    /\ zombies = {}
    /\ tasks["B"].config_running.count = 1
    /\ Len(tasks["B"].proc_state) = 2
    /\ tasks["B"].proc_state[1].pid = None
    /\ tasks["B"].proc_state[2].pid \in alive
    /\ sigsent[tasks["B"].proc_state[2].pid] = ""

\* ------------------------------------------------------------------- C30
\* Slot i of task t is empty and was last started at a time the clock has not
\* reached: the clock was set back since.
ClockBack(t, i) ==
    /\ t \in DOMAIN tasks
    /\ i \in DOMAIN tasks[t].proc_state
    /\ tasks[t].proc_state[i].pid = None
    /\ tasks[t].proc_state[i].started # None
    /\ tasks[t].proc_state[i].started > now

\* In r the start loop of task t comes to slot i: the task runs under control
\* wait, the slot is within its count, and what it requires has started.
LoopReaches(r, t, i) ==
    /\ RunsUnder(r, t)
    /\ ~r.exc /\ ~r.nofork
    /\ i <= r.tasks[t].config_running.count
    /\ \A q \in r.tasks[t].config_running.requires :
          q \in DOMAIN r.tasks /\ r.tasks[q].started # None

\* The idle pass that comes d after the state r of the loop.
NextPass(r, d) ==
    {idle(loop_top([r EXCEPT !.now = r.now + d], ord), ord, rord) :
        ord \in Perms(TaskNames), rord \in Perms(r.zombies)}

\* The pass over a slot whose start time is ahead of the clock sets the start
\* time to now and starts nothing in the slot.
ClockBackResets(r, t, i) ==
    /\ r.tasks[t].proc_state[i].started = now
    /\ r.tasks[t].proc_state[i].pid = None

\* C30: when the clock is behind the start time of an empty slot, the idle
\* pass sets the start time of the slot to now, and the next idle pass,
\* whenever it comes, starts a process in the slot.
C30_ClockBackRestartsNextTick ==
    loop = "run" =>
        \A r \in AfterIdle : \A t \in TaskNames : \A i \in 1..MaxPid :
            ClockBack(t, i) /\ LoopReaches(St("main"), t, i) /\ LoopReaches(r, t, i) =>
                /\ r.tasks[t].proc_state[i].started = now
                /\ \A d \in 0..reexec_delay : \A r2 \in NextPass(r, d) :
                      ~r2.nofork => r2.tasks[t].proc_state[i].pid # None

\* The same with the restart held back as after any start: the passes that
\* come less than reexec_delay after the reset start nothing in the slot, and
\* the pass that comes reexec_delay after it starts a process there.
C30_ClockBackRestartsAfterDelay ==
    loop = "run" =>
        \A r \in AfterIdle : \A t \in TaskNames : \A i \in 1..MaxPid :
            ClockBack(t, i) /\ LoopReaches(St("main"), t, i) /\ LoopReaches(r, t, i) =>
                /\ ClockBackResets(r, t, i)
                /\ \A d \in 0..reexec_delay : \A r2 \in NextPass(r, d) :
                      ~r2.nofork =>
                         IF d < reexec_delay
                         THEN ClockBackResets(r2, t, i)
                         ELSE /\ r2.tasks[t].proc_state[i].pid \in r2.alive
                              /\ r2.tasks[t].proc_state[i].started = now + d

\* B's process was restarted, it exited and was reaped, and the clock was set
\* back to before the restart; A is running.
C30_Witness ==
    /\ loop = "run"
    /\ ClockBack("B", 1)
    /\ LoopReaches(St("main"), "B", 1)
    /\ zombies = {}
    /\ get_pids(tasks["A"]) # {}
    /\ \A r \in AfterIdle :
          /\ LoopReaches(r, "B", 1)
          /\ \A r2 \in NextPass(r, reexec_delay) :
                ~r2.nofork /\ r2.tasks["B"].proc_state[1].pid \in r2.alive

\* ------------------------------------------------------------------- C26
\* The paths the watcher watches: those it holds open and those it waits for.
Watched(w) == DOMAIN w.paths_open \cup w.paths_pending

\* C26: after any sequence of add(), remove() and commit() calls that leaves
\* nothing to commit, the paths watched are the paths added less the paths
\* removed.
C26_WatchedIsAddedLessRemoved ==
    ~fw.dirty => Watched(fw) = fw.want

\* The same as long as no commit() has raised.
C26_WatchedUntilCommitRaises ==
    ~fw.dirty /\ ~fw.broken => Watched(fw) = fw.want

\* q was added by a call that returned, nothing is left to commit, and q is
\* neither open nor pending.
C26_Witness ==
    /\ ~fw.dirty /\ ~fw.exc
    /\ fw.want = {"q"}
    /\ "q" \in DOMAIN fw.paths
    /\ "q" \notin Watched(fw)
    /\ path_exists(fw, "q")

\* ------------------------------------------------------------------- C27
\* The watcher holds the path open and the file is not there any more.
Vanished(path) ==
    /\ path \in DOMAIN fw.paths
    /\ path \in DOMAIN fw.paths_open
    /\ ~path_exists(fw, path)

\* get() reported the path and moved it from open to pending, registered as
\* before.
MovedToPending(r, path) ==
    /\ path \in r.last_changes
    /\ path \in r.paths_pending
    /\ path \notin DOMAIN r.paths_open
    /\ path \in DOMAIN r.paths /\ r.paths[path]

\* The results of the next get().
AfterGet == {get(fw, ord, ford) : ord \in Perms(Paths), ford \in Perms(Fds)}

\* C27: when a path the watcher holds open has disappeared, the next get()
\* reports it and moves it to pending if it was added with missing=True, and
\* raises if it was added with missing=False.
C27_DisappearedIsReported ==
    \A path \in Paths : Vanished(path) =>
        \A r \in AfterGet :
            IF fw.paths[path] THEN MovedToPending(r, path) ELSE r.exc

\* The kernel still holds the event of the disappearance, or the mode is
\* polling and the path is looked at by every get().
Detectable(path) ==
    \/ fw.mode = wf_polling /\ fw.paths_open[path] \in DOMAIN fw.poll_stat
    \/ <<fw.paths_open[path], "gone">> \in fw.evq

\* The same for the disappearances the watcher can still detect, when the
\* get() is not ended by an exception for another path.
C27_DetectedIsReported ==
    \A path \in Paths : Vanished(path) /\ Detectable(path) =>
        \A r \in AfterGet :
            IF fw.paths[path] THEN r.exc \/ MovedToPending(r, path) ELSE r.exc

\* p and q are held open, p was added with missing=False and q with
\* missing=True, no call has failed, and the files of both are deleted.
C27_Witness ==
    /\ fw.mode = wf_kqueue
    /\ ~fw.broken /\ ~fw.exc
    /\ Vanished("p") /\ Vanished("q")
    /\ ~fw.paths["p"] /\ fw.paths["q"]
    /\ Detectable("p") /\ Detectable("q")
    /\ \E r \in AfterGet : r.exc /\ "q" \in DOMAIN r.paths_open /\ r.evq = {}

\* ------------------------------------------------------------------- C28
\* The path is pending and its file is there: it has appeared.
Appeared(path) ==
    /\ path \in DOMAIN fw.paths
    /\ path \in fw.paths_pending
    /\ path_exists(fw, path)

\* The results of the next scan(), and of a get() that follows w.
AfterScan == {scan(fw, ord, ford) : ord \in Perms(Paths), ford \in Perms(Fds)}
GetAfter(w) == {get(w, ord, ford) : ord \in Perms(Paths), ford \in Perms(Fds)}

\* C28: when a pending path has appeared, the get() that follows the next
\* scan() reports the path, and the get() after that does not report it again.
C28_AppearanceReportedOnce ==
    \A path \in Paths : Appeared(path) =>
        \A r1 \in AfterScan : \A r2 \in GetAfter(r1) :
            /\ path \in r2.last_changes
            /\ \A r3 \in GetAfter(r2) : path \notin r3.last_changes

\* The same when none of the calls raises.
C28_AppearanceReportedOnceIfNoneRaises ==
    \A path \in Paths : Appeared(path) =>
        \A r1 \in AfterScan : ~r1.exc =>
            /\ path \in DOMAIN r1.paths_open
            /\ path \notin r1.paths_pending
            /\ \A r2 \in GetAfter(r1) : ~r2.exc =>
                  /\ path \in r2.last_changes
                  /\ \A r3 \in GetAfter(r2) : ~r3.exc => path \notin r3.last_changes

\* p was added with missing=True and is the only path registered; it is
\* pending, its file has appeared, and no call has failed.
C28_Witness ==
    /\ fw.mode = wf_inotifyx
    /\ ~fw.broken /\ ~fw.exc
    /\ DOMAIN fw.paths = {"p"}
    /\ Appeared("p")
    /\ fw.evq = {}
    /\ \A r1 \in AfterScan : \A r2 \in GetAfter(r1) :
          ~r1.exc /\ ~r2.exc /\ r2.last_changes = {"p"}

\* q was added with missing=True, it is pending and its file has appeared;
\* p is registered since an add() with missing=False that raised.
C28_LeftoverWitness ==
    /\ fw.mode = wf_kqueue
    /\ Appeared("q")
    /\ "p" \in DOMAIN fw.paths /\ ~fw.paths["p"]
    /\ "p" \notin Watched(fw) /\ ~path_exists(fw, "p")
    /\ \A r1 \in AfterScan :
          /\ r1.exc /\ "q" \notin Watched(r1)
          /\ \A r2 \in GetAfter(r1) : ~r2.exc /\ r2.last_changes = {}

\* ------------------------------------------------------------------- C31
\* terminate() has marked the task for deletion.
MarkedForDeath(t) == t \in DOMAIN tasks /\ tasks[t].dnr # None

\* The task is still known to the legion after the step, and the config that
\* runs after the step does not name it.
StillDropped(t) ==
    /\ t \in DOMAIN tasks'
    /\ config_running' # None
    /\ t \notin DOMAIN Doc(config_running')

\* terminate() was called on the task before the step or is called in it:
\* the task is marked, or the config that ran before the step named it and
\* the step loads one that does not.
TerminateCalled(t) ==
    \/ MarkedForDeath(t)
    \/ /\ t \in DOMAIN tasks
       /\ config_running # None
       /\ t \in DOMAIN Doc(config_running)

\* C31: from terminate() until the task is deleted its dnr flag stays set and
\* it gets no new process, whatever step the supervisor or a child takes.
C31_DnrUntilDeleted ==
    [][\A t \in TaskNames :
          TerminateCalled(t) /\ StillDropped(t) =>
              /\ tasks'[t].dnr # None
              /\ get_pids(tasks'[t]) \subseteq get_pids(tasks[t])]_vars

\* The same from the first state in which the flag is seen set.
C31_DnrKeptOnceSet ==
    [][\A t \in TaskNames :
          MarkedForDeath(t) /\ StillDropped(t) =>
              /\ tasks'[t].dnr # None
              /\ get_pids(tasks'[t]) \subseteq get_pids(tasks[t])]_vars

\* A task that the running config does not name was marked for death, its
\* processes were stopped and reaped, and the idle pass would now start a
\* process for it.
C31_Witness ==
    /\ loop = "run" /\ exiting = None
    /\ config_running # None
    /\ \E t \in DOMAIN tasks \ DOMAIN Doc(config_running) :
          /\ tasks[t].dnr = None
          /\ tasks[t].stopped # None
          /\ get_pids(tasks[t]) = {}
          /\ \A r \in AfterIdle :
                t \in DOMAIN r.tasks /\ get_pids(r.tasks[t]) \cap r.alive # {}

\* A task is marked for death while it has a live process.
C31_MarkedWitness ==
    \E t \in TaskNames : MarkedForDeath(t) /\ get_pids(tasks[t]) \cap alive # {}

\* ------------------------------------------------ C32: events of a task out of scope
\* A task with a file_change event is switched off by a rewrite of the config
\* file, with or without the event still in its definition.
InitEvents == \E u \in {<<7, 18>>, <<7, 8>>} : InitWith(u)

NextEvents ==
    \/ Startup
    \/ IdlePass
    \/ ChildEvent
    \/ ConfigFileChange
    \/ FileEvent
    \/ ChildExit
    \/ Tick

SpecEvents == InitEvents /\ [][NextEvents]_vars

OutOfScope(t) == t \in DOMAIN tasks /\ t \notin tasks_scoped

Reacts(r) == r.alive # alive \/ r.procs # procs \/ r.sigsent # sigsent

\* C32: a file change for a task that is out of scope forks no event command
\* and sends no signal.
C32_OutOfScopeIgnoresEvents ==
    loop = "run" =>
        \A t \in file_event_map :
            OutOfScope(t) => ~Reacts(file_dispatch(St("main"), t))

\* What the code keeps: a task that has been deleted has no registration left.
C32_DeletedIgnoresEvents == file_event_map \subseteq DOMAIN tasks

C32_Witness ==
    /\ loop = "run"
    /\ \E t \in file_event_map :
         /\ OutOfScope(t)
         /\ tasks[t].config_pending.control = "off"
         /\ get_pids(tasks[t]) = {}
         /\ Reacts(file_dispatch(St("main"), t))

\* ------------------------------------------------ C33: what the early break leaves
\* A running task is switched off by a rewrite of the config file, and the
\* supervisor is asked to exit.
InitOff == InitWith(<<2, 8>>)

NextOff ==
    \/ Startup
    \/ IdlePass
    \/ ChildEvent
    \/ Signal
    \/ ConfigFileChange
    \/ ChildExit
    \/ PollTimeout

SpecOff == InitOff /\ [][NextOff]_vars

\* The loop has left through one of its two breaks, before the deadline.
BrokeEarly ==
    /\ loop \in {"exit", "reset"}
    /\ exiting # None
    /\ ~(exiting + sigterm_limit < now)

AliveOf(t) == get_pids(tasks[t]) \cap alive

\* C33: when the exiting loop breaks before the sigterm_limit deadline, no
\* process of any task the legion knows, in scope or not, is alive.
C33_EarlyBreakLeavesNoProcess ==
    BrokeEarly => \A t \in DOMAIN tasks : AliveOf(t) = {}

\* What the code keeps: no process of a task in scope is left.
C33_EarlyBreakLeavesNoScopedProcess ==
    BrokeEarly => \A t \in tasks_scoped : get_pids(tasks[t]) = {}

C33_Witness ==
    /\ BrokeEarly
    /\ tasks_scoped # {}
    /\ \E t \in DOMAIN tasks \ tasks_scoped : AliveOf(t) # {}

\* ------------------------------------------------ C34: an exit asked during a pass
\* The HTTP service answers on its own threads: /manage/stop can reach
\* schedule_exit() while the main thread is inside task.manage().  Here the
\* worker's write lands between manage()'s test of is_exiting() and its call
\* of _start(), which does not read the flag again before it forks.
manage_exit_asked(s, t) ==
    LET T == s.tasks[t] IN
    IF T.stopping # None THEN stop(s, t, FALSE)
    ELSE IF T.started # None /\ T.limit # None /\ s.now > T.limit
    THEN stop(s, t, FALSE)
    ELSE IF s.exiting # None THEN s
    ELSE _start([schedule_exit(s) EXCEPT !.response = 202], t)

RECURSIVE manage_seq_exit_asked(_, _, _, _, _)
manage_seq_exit_asked(s, ord, i, scoped, rt) ==
    IF i > Len(ord) \/ s.exc THEN s
    ELSE IF ord[i] \in scoped /\ ord[i] \in DOMAIN s.tasks
    THEN manage_seq_exit_asked(
            IF ord[i] = rt THEN manage_exit_asked(s, rt) ELSE manage(s, ord[i]),
            ord, i + 1, scoped, rt)
    ELSE manage_seq_exit_asked(s, ord, i + 1, scoped, rt)

idle_exit_asked(s, ord, rord, rt) ==
    LET s1 == _reap(s, ord, rord, 1)
        s2 == manage_seq_exit_asked(s1, ord, 1, s1.tasks_scoped, rt)
    IN  IF s2.exc THEN s2 ELSE reload(s2, ord)

\* An idle pass during which /manage/stop is answered while manage() of the
\* task rt is past its test.
IdlePassExitAsked ==
    /\ loop = "run"
    /\ exiting = None
    /\ allow_control
    /\ requests < MaxRequests
    /\ requests' = requests + 1
    /\ \E rt \in tasks_scoped, ord \in Perms(TaskNames), rord \in Perms(zombies) :
         Iteration(LAMBDA s : idle_exit_asked(s, ord, rord, rt), ord)
    /\ UNCHANGED <<config_file, roles_file, now, allow_control, listed, edits, fw, mloop>>

NextExitAsked ==
    \/ Startup
    \/ IdlePass
    \/ ChildEvent
    \/ HttpOther
    \/ IdlePassExitAsked
    \/ ChildExit
    \/ Tick

SpecExitAsked == InitHttp /\ [][NextExitAsked]_vars

\* This step forks a process of a task (not an event command).
TaskForked ==
    \E p \in alive' \ alive : p \in DOMAIN procs' /\ procs'[p].handler = "proc_exit"

\* C34: from the moment the legion is marked exiting no task process is
\* forked: not in a step that begins with the mark set, and not in the step
\* that sets it.
C34_NoForkOnceExiting ==
    [][(exiting # None \/ exiting' # None) => ~TaskForked]_vars

\* What the code keeps: a pass that begins with the mark set forks nothing.
C34_NoForkOnceExitingSeen == [][exiting # None => ~TaskForked]_vars

\* An exit that is asked for now, behind manage()'s test, is followed by a
\* fork for a task whose restart is due.
C34_Witness ==
    /\ loop = "run"
    /\ exiting = None
    /\ requests < MaxRequests
    /\ \E rt \in tasks_scoped :
         LET r == manage_exit_asked(St("main"), rt) IN
         /\ r.exiting # None
         /\ ~r.exc /\ ~r.nofork
         /\ r.alive \ alive # {}

\* ------------------------------------------------ the loop around poll()
\* legion.manage() keeps the result of poll() in its local evlist and the time
\* of the last idle pass in last_idle_run.  poll() returns an empty list after
\* its timeout, or the objects that are readable: the self-pipe ("child") or
\* the file watcher ("files"); when it is interrupted the except clause logs
\* EINTR and evlist keeps what it was bound to, if anything.
def_long_cycle == 5
idle_starvation == def_long_cycle * 3
MaxPollClock == 19

\* The loop that never finds idle processing overdue.
idle_starving_never(lp, t) == FALSE

idle_starving(lp, t) == lp.last_idle_run + idle_starvation < t

\* watch.get() of the dispatch branch hands back the paths that changed; fresh
\* is the set of tasks registered for them.
RECURSIVE dispatch_files(_, _, _)
dispatch_files(s, ord, i) ==
    IF i > Len(ord) \/ s.exc THEN s
    ELSE dispatch_files(file_dispatch(s, ord[i]), ord, i + 1)

\* The loop of legion.manage() from the return of poll() on.  Reading evlist
\* while it is unbound raises UnboundLocalError.
loop_pass(s, lp, fresh, ord, rord) ==
    LET starving == idle_starving(lp, s.now) IN
    IF ~starving /\ lp.evlist = "unbound"
    THEN [s |-> Raise(s), lp |-> [lp EXCEPT !.did = "raise"]]
    ELSE IF starving \/ lp.evlist = "empty"
    THEN [s |-> idle(s, ord, rord),
          lp |-> [lp EXCEPT !.last_idle_run = s.now, !.did = "idle"]]
    ELSE IF lp.evlist = "child"
    THEN [s |-> _reap(s, ord, rord, 1), lp |-> [lp EXCEPT !.did = "events"]]
    ELSE [s |-> dispatch_files(s, fresh, 1), lp |-> [lp EXCEPT !.did = "events"]]

Pass(lp, fresh, ord, rord) ==
    \E s1 \in {loop_top(St("main"), ord)} :
        IF loop_breaks(s1)
        THEN /\ Commit(s1)
             /\ loop' = IF s1.resetting # None THEN "reset" ELSE "exit"
             /\ mloop' = mloop
        ELSE \E r \in {loop_pass(s1, lp, fresh, ord, rord)} :
                /\ Finish(r.s, ord)
                /\ mloop' = r.lp

\* What poll() can return now: the self-pipe is readable while an exited
\* child has not been reaped; a watched file may change at any time.
ReadyNow ==
    (IF zombies = {} THEN {"empty"} ELSE {"child"})
        \cup (IF file_event_map # {} THEN {"files"} ELSE {})

PollReturns ==
    /\ loop = "run"
    /\ \E ev \in ReadyNow, ord \in Perms(TaskNames), rord \in Perms(zombies) :
         \E t \in IF ev = "files" THEN file_event_map ELSE {"A"} :
            Pass([mloop EXCEPT !.evlist = ev, !.eintr = FALSE],
                 IF ev = "files" THEN <<t>> ELSE <<>>, ord, rord)
    /\ UNCHANGED <<config_file, roles_file, now, allow_control, requests, listed, edits, fw>>

\* poll() raises EINTR; a second get() of the watcher finds no new change.
PollInterrupted ==
    /\ loop = "run"
    /\ \E ord \in Perms(TaskNames), rord \in Perms(zombies) :
         Pass([mloop EXCEPT !.eintr = TRUE], <<>>, ord, rord)
    /\ UNCHANGED <<config_file, roles_file, now, allow_control, requests, listed, edits, fw>>

ClockRuns ==
    /\ loop = "run"
    /\ now + TickStep <= MaxPollClock
    /\ now' = now + TickStep
    /\ UNCHANGED <<tasks, tasks_scoped, procs, file_event_map, exiting,
                   resetting, do_stop_all, reload_config, config_running,
                   role_set, config_file, roles_file, alive, zombies, sigsent,
                   loop, worker_wrote, allow_control, response, requests, listed, edits,
                   exit_asked, fw, mloop>>

InitPoll == InitWith(<<7>>)

NextPoll ==
    \/ Startup
    \/ PollReturns
    \/ PollInterrupted
    \/ ChildExit
    \/ ClockRuns

SpecPoll == InitPoll /\ [][NextPoll]_vars

\* C35: a pass whose poll() was interrupted raises nothing and dispatches no
\* event.
C35_EintrIsRetry == mloop.eintr => mloop.did \notin {"raise", "events"}

\* What the code keeps: after a poll() that timed out, an interrupted poll()
\* is followed by an idle pass.
C35_EintrAfterTimeoutIsIdle ==
    mloop.eintr /\ mloop.evlist = "empty" => mloop.did = "idle"

\* The first poll() of the loop was interrupted.
C35_Witness == mloop.eintr /\ mloop.evlist = "unbound" /\ loop = "crash"

\* The poll() after one that returned the self-pipe was interrupted, and the
\* pass reaped a child.
C35_StaleWitness ==
    /\ mloop.eintr /\ mloop.evlist = "child" /\ mloop.did = "events"
    /\ loop = "run"

\* The last idle pass is more than idle_starvation old.
Starved == mloop.last_idle_run + idle_starvation < now

\* C37: when no idle pass has run for idle_starvation, the next iteration that
\* reaches poll() runs the idle pass (reap, manage() of every scoped task,
\* reload), whatever poll() returns.
C37_StarvedRunsIdle ==
    loop = "run" /\ Starved =>
        \A ev \in ReadyNow, ord \in Perms(TaskNames), rord \in Perms(zombies) :
            LET s1 == loop_top(St("main"), ord)
                r == loop_pass(s1, [mloop EXCEPT !.evlist = ev, !.eintr = FALSE],
                               IF ev = "files" THEN ord ELSE <<>>, ord, rord)
            IN  \/ loop_breaks(s1)
                \/ /\ r.lp.did = "idle"
                   /\ r.lp.last_idle_run = now
                   /\ r.s = idle(s1, ord, rord)

\* poll() returned an event and the pass ran the idle processing instead,
\* more than idle_starvation after the entry of the loop.
C37_Witness ==
    /\ loop = "run"
    /\ mloop.evlist \in {"child", "files"}
    /\ ~mloop.eintr
    /\ mloop.did = "idle"
    /\ mloop.last_idle_run = now
    /\ now > 1 + idle_starvation

\* ------------------------------------------------ C36: signals, reset and exit
\* Signals arrive and /manage/ requests are answered between the passes of
\* the loop.
NextSignals ==
    \/ Startup
    \/ IdlePass
    \/ ChildEvent
    \/ Signal
    \/ HttpOther
    \/ ChildExit

SpecSignals == InitHttp /\ [][NextSignals]_vars

AfterSignal(sig) == {_sig_handler(St("main"), sig, ord) : ord \in Perms(TaskNames)}

\* C36: SIGHUP leaves an exit and a reset scheduled; SIGTERM (and SIGINT, which
\* the handler treats alike) leaves an exit scheduled and no reset, also when
\* a reset was pending; and while no reset is scheduled the loop does not
\* leave through LegionReset.
C36_TermCoercesReset ==
    /\ [](loop = "run" =>
            /\ \A r \in AfterSignal("HUP") : r.exiting # None /\ r.resetting # None
            /\ \A r \in AfterSignal("TERM") : r.exiting # None /\ r.resetting = None)
    /\ [][resetting = None /\ resetting' = None => loop' # "reset"]_vars

\* A reset is pending and no process is left: a SIGTERM now makes the next
\* iteration leave the loop as a plain exit.
C36_Witness ==
    /\ loop = "run"
    /\ exiting # None /\ resetting # None
    /\ \E r \in AfterSignal("TERM") : r.resetting = None /\ loop_breaks(r)

\* ----------------------------------------------------------------------- C38
\* Pair n of a /manage/control request is invalid: the task is unknown or the
\* value is no control.
InvalidPair(pm, n) == n \notin DOMAIN tasks \/ pm[n] \notin all_controls

\* C38: a /manage/control request with an invalid pair is answered 404 and
\* changes the control of no task, pending or running, nor anything else.
C38_InvalidControlRejected ==
    (loop = "run" /\ allow_control) =>
        \A pm \in PostMaps(PostControls) :
            (\E n \in DOMAIN pm : InvalidPair(pm, n)) =>
                \A r \in AfterControl(pm) : r.response = 404 /\ NothingChanged(r)

\* A request names a running task with a control that differs from its own,
\* beside an invalid pair, and is answered 404.
C38_Witness ==
    /\ loop = "run" /\ allow_control
    /\ \E pm \in PostMaps(PostControls) :
         /\ \E n \in DOMAIN pm : InvalidPair(pm, n)
         /\ \E n \in DOMAIN pm :
               /\ ~InvalidPair(pm, n)
               /\ tasks[n].config_running.control # pm[n]
               /\ get_pids(tasks[n]) \cap alive # {}
         /\ \E r \in AfterControl(pm) : r.response = 404

\* ----------------------------------------------------------------------- C39
\* Every entry of a /manage/count request names a task with a positive count.
ValidCountPosts ==
    {pm \in PostMaps(PostCounts) :
        \A n \in DOMAIN pm : n \in DOMAIN tasks /\ tasks[n].has_running /\ pm[n] > 0}

\* Entry n asks for a count other than the one the task runs with.
CountDiffers(pm, n) == tasks[n].config_running.count # pm[n]

CountsApplied(pm, r) ==
    /\ r.response = 202
    /\ \A n \in DOMAIN pm :
          CountDiffers(pm, n) =>
              n \in DOMAIN r.tasks /\ r.tasks[n].config_pending.count = pm[n]

\* C39: a /manage/count request whose entries are all valid and of which at
\* least one changes a count is answered 202 and leaves every changed count
\* pending, whether or not other entries are no-ops.
C39_ChangedCountsApplied ==
    (loop = "run" /\ allow_control) =>
        \A pm \in ValidCountPosts :
            (\E n \in DOMAIN pm : CountDiffers(pm, n)) =>
                \A r \in AfterCount(pm) : CountsApplied(pm, r)

\* What the code keeps: the requests in which every entry changes a count,
\* while the pending configs leave a start order for _apply().
C39_AllChangedCountsApplied ==
    (loop = "run" /\ allow_control) =>
        \A pm \in ValidCountPosts :
            (\A n \in DOMAIN pm : CountDiffers(pm, n)) =>
                \A pord \in Perms(DOMAIN pm), ord \in Perms(TaskNames) :
                    task_list(St("worker"), TRUE, ord).ok =>
                        CountsApplied(pm, http_count(St("worker"), pm, pord, ord))

\* A request with a changing entry and a no-op entry is answered 500, and
\* the changing entry has been written without being applied.
C39_Witness ==
    /\ loop = "run" /\ allow_control
    /\ \E pm \in ValidCountPosts :
         \E n, m \in DOMAIN pm :
            /\ CountDiffers(pm, n) /\ ~CountDiffers(pm, m)
            /\ \E r \in AfterCount(pm) :
                  /\ r.response = 500
                  /\ r.tasks[n].config_pending.count = pm[n]
                  /\ r.alive = alive

\* ----------------------------------------------------------------------- C40
\* The path is not registered and there is no file to open.
AddCannotOpen(path) == path \notin DOMAIN fw.paths /\ ~path_exists(fw, path)

\* add(path, missing=False) with its commit, for every order of the commit.
AfterAdd(w, path) == {add(w, path, FALSE, TRUE, ord) : ord \in Perms(Paths)}

\* C40: on a watcher with nothing to commit and no failure behind it, add()
\* with missing=False of a path that cannot be opened raises and leaves the
\* registered set as it was and the path unwatched, and a later add() of
\* another path, whose file is there, succeeds and watches it.
C40_FailedAddLeavesNoTrace ==
    (~fw.dirty /\ ~fw.broken) =>
        \A path \in Paths :
            AddCannotOpen(path) =>
                \A r \in AfterAdd(fw, path) :
                    /\ r.exc
                    /\ r.paths = fw.paths
                    /\ path \notin Watched(r)
                    /\ \A q \in Paths \ DOMAIN r.paths :
                          path_exists(r, q) =>
                              \A r2 \in AfterAdd(r, q) : ~r2.exc /\ q \in Watched(r2)

\* What the code keeps: the call raises, and the path is neither opened
\* nor waited for.
C40_FailedAddRaises ==
    (~fw.dirty /\ ~fw.broken) =>
        \A path \in Paths :
            AddCannotOpen(path) =>
                \A r \in AfterAdd(fw, path) :
                    /\ r.exc
                    /\ path \notin Watched(r)

\* An add() of p with missing=False has raised; p is still registered though
\* unwatched, and an add() of q, whose file is there, raises as well and
\* leaves q unwatched.
C40_Witness ==
    /\ fw.broken /\ ~fw.dirty
    /\ "p" \in DOMAIN fw.paths /\ ~fw.paths["p"]
    /\ "p" \notin Watched(fw) /\ "p" \notin fw.want
    /\ "q" \notin DOMAIN fw.paths /\ path_exists(fw, "q")
    /\ \E r2 \in AfterAdd(fw, "q") : r2.exc /\ "q" \notin Watched(r2)

====
